---- MODULE Spec2Model ----
(***************************************************************************)
(* State-machine model of the PSS RAG safety gate and answer generator:    *)
(*   SecurityManager  (src/utils/security.py)                              *)
(*   RAGLogger        (src/utils/logger.py), security events only          *)
(*   LLMService       (src/services/llm_service.py)                        *)
(*   MockLLMService   (src/services/mock_llm_service.py)                   *)
(*                                                                         *)
(* Text is modelled as a sequence of tokens.  Every token stands for one   *)
(* lexical unit of a string (a word, a blank, an HTML tag, a denylisted    *)
(* fragment, ...), and the length of a text is its number of tokens.       *)
(* The wall clock (time.time()) is an integer number of seconds that       *)
(* never runs backwards.                                                   *)
(***************************************************************************)
EXTENDS Integers, Sequences, FiniteSets, TLC

(***************************************************************************)
(* Bounds of the model.                                                    *)
(***************************************************************************)
\* Config.RATE_LIMIT_PER_MINUTE, read from the environment (default 30):
\* the budget N of the rate limiter, scaled down.
RATE_LIMIT_PER_MINUTE == 2
\* Config.MAX_QUERY_LENGTH, read from the environment (default 1000),
\* scaled down and counted in tokens.
MAX_QUERY_LENGTH == 3
\* The clock stops at MaxTime seconds.
MaxTime == 140
\* At most MaxChecks calls of check_rate_limit are made.
MaxChecks == 5
\* At most MaxCalls calls of generate_response are made.
MaxCalls == 2
\* At most MaxThreadChecks calls of check_rate_limit are made by the threads.
MaxThreadChecks == 3
\* A page is made of at most MaxRuns runs of lines of one kind.
MaxRuns == 3
\* A directory holds at most MaxFiles files.
MaxFiles == 2
\* A document has at most MaxPages pages.
MaxPages == 2
\* Config.TOP_K_RESULTS, read from the environment (default 5), scaled down.
TOP_K_RESULTS == 2
\* At most MaxQueries questions are submitted.
MaxQueries == 3
\* The statistics are read with at most MaxRequests requests counted.
MaxRequests == 10
\* At most MaxHealthChecks health checks are made.
MaxHealthChecks == 2

(***************************************************************************)
(* Program constants.                                                      *)
(***************************************************************************)
\* minute_ago = now - 60
WINDOW == 60
\* if count == 20: tem_text = tem_text[0:-20]
SPARSE_RUN == 20

Clients == {"c1", "c2"}
\* Amounts of seconds by which the clock advances between two calls.
AdvanceSteps == {0, 20, 40, 60, 80}

\* Python's None where a string is expected, and where a text is expected.
None == "None"
NoText == <<>>

VARIABLES
    now,               \* time.time()
    rate_limit_store,  \* SecurityManager.rate_limit_store: client -> deque
    events,            \* security events written by log_security_event
    rl_result,         \* the last check_rate_limit call and what it returned
                       \* (meaningful once nchecks > 0)
    allowed_log,       \* history: the times of every allowed check, per client
    nchecks            \* history: number of check_rate_limit calls made

rate_vars == <<now, rate_limit_store, events, rl_result, allowed_log, nchecks>>

(***************************************************************************)
(* RAGLogger.log_security_event: one log entry of the given event type and *)
(* severity.  The log is kept as the number of entries of each kind.       *)
(***************************************************************************)
EventKinds ==
    { <<"RATE_LIMIT_EXCEEDED", "WARNING">>,
      <<"INPUT_TOO_LONG", "WARNING">>,
      <<"MALICIOUS_INPUT_DETECTED", "CRITICAL">>,
      <<"CONTENT_POLICY_VIOLATION", "WARNING">> }

log_security_event(log, event_type, severity) ==
    [log EXCEPT ![<<event_type, severity>>] = @ + 1]

\* Number of logged events of one severity.
RECURSIVE SumOver(_, _)
SumOver(f, S) ==
    IF S = {} THEN 0
    ELSE LET x == CHOOSE y \in S : TRUE IN f[x] + SumOver(f, S \ {x})

SeverityCount(log, severity) ==
    SumOver(log, {k \in EventKinds : k[2] = severity})

(***************************************************************************)
(* SecurityManager.check_rate_limit                                        *)
(***************************************************************************)
\* An if in place of the while: at most one entry is evicted.
CleanOldEntries_Once(q, minute_ago) ==
    IF q # <<>> /\ Head(q) < minute_ago THEN Tail(q) ELSE q

\* while store[client] and store[client][0] < minute_ago: popleft()
RECURSIVE CleanOldEntries(_, _)
CleanOldEntries(q, minute_ago) ==
    IF q # <<>> /\ Head(q) < minute_ago
    THEN CleanOldEntries(Tail(q), minute_ago)
    ELSE q

LimitReached_OffByOne(current_requests) ==
    current_requests > RATE_LIMIT_PER_MINUTE

\* if current_requests >= Config.RATE_LIMIT_PER_MINUTE: blocked
LimitReached(current_requests) == current_requests >= RATE_LIMIT_PER_MINUTE

BlockedWindow_Recorded(q, t) == Append(q, t)

\* The blocked branch leaves the cleaned deque as it is.
BlockedWindow(q, t) == q

Remaining_BeforeAppend(current_requests) ==
    RATE_LIMIT_PER_MINUTE - current_requests

\* remaining = Config.RATE_LIMIT_PER_MINUTE - current_requests - 1
Remaining(current_requests) == RATE_LIMIT_PER_MINUTE - current_requests - 1

check_rate_limit(client_id) ==
    LET minute_ago == now - WINDOW
        cleaned == CleanOldEntries(rate_limit_store[client_id], minute_ago)
        current_requests == Len(cleaned)
    IN  /\ nchecks < MaxChecks
        /\ nchecks' = nchecks + 1
        /\ now' = now
        /\ IF LimitReached(current_requests)
           THEN /\ events' = log_security_event(events, "RATE_LIMIT_EXCEEDED", "WARNING")
                /\ rate_limit_store' =
                     [rate_limit_store EXCEPT ![client_id] = BlockedWindow(cleaned, now)]
                /\ allowed_log' = allowed_log
                /\ rl_result' = [client |-> client_id, at |-> now,
                                 before |-> rate_limit_store[client_id],
                                 allowed |-> FALSE, remaining |-> 0]
           ELSE /\ events' = events
                /\ rate_limit_store' =
                     [rate_limit_store EXCEPT ![client_id] = Append(cleaned, now)]
                /\ allowed_log' =
                     [allowed_log EXCEPT ![client_id] = Append(@, now)]
                /\ rl_result' = [client |-> client_id, at |-> now,
                                 before |-> rate_limit_store[client_id],
                                 allowed |-> TRUE,
                                 remaining |-> Remaining(current_requests)]

CheckRateLimit == \E client_id \in Clients : check_rate_limit(client_id)

\* Time passes between two calls.
AdvanceClock ==
    /\ \E d \in AdvanceSteps : /\ now + d <= MaxTime
                               /\ now' = now + d
    /\ UNCHANGED <<rate_limit_store, events, rl_result, allowed_log, nchecks>>

InitRate ==
    /\ now = 0
    /\ rate_limit_store = [c \in Clients |-> <<>>]
    /\ events = [k \in EventKinds |-> 0]
    /\ rl_result = [client |-> None, at |-> 0, before |-> <<>>,
                    allowed |-> FALSE, remaining |-> 0]
    /\ allowed_log = [c \in Clients |-> <<>>]
    /\ nchecks = 0


(***************************************************************************)
(* Text.  A prompt is a sequence of tokens:                                *)
(*   "w"     a plain word                 "sp"    a blank                  *)
(*   "tag"   an HTML tag such as <b>      "js"    the fragment javascript: *)
(*   "sql"   the words DROP TABLE         "hack"  the word hack            *)
(*   "fraud" the word fraud                                                *)
(*   "ssn"   a number shaped like a US social security number              *)
(***************************************************************************)
Alphabet == {"w", "sp", "tag", "js", "sql", "hack", "fraud", "ssn"}

SeqsUpTo(S, n) == UNION {[1..k -> S] : k \in 0..n}

\* k plain words.
Words(k) == [i \in 1..k |-> "w"]

\* The prompts given to generate_response: one for every way through input
\* validation, sanitizing and the content policy.
Prompts ==
    { <<>>,                                 \* empty
      <<"sp">>,                             \* blank
      <<"w">>,                              \* plain
      <<"sp", "w", "sp">>,                  \* blanks to strip
      <<"tag">>,                            \* nothing left once sanitized
      <<"tag", "w">>,                       \* a tag to strip
      <<"js">>,                             \* denylisted
      <<"sql">>,                            \* denylisted
      <<"w", "sql">>,                       \* DROP TABLE without a word boundary
      <<"sql", "sp", "hack">>,              \* denylisted and prohibited
      <<"hack">>,                           \* prohibited: security
      <<"fraud">>,                          \* prohibited: illegal activity
      <<"fraud", "sp", "hack">>,            \* prohibited twice
      <<"hack", "w">>,                      \* hack inside a longer word
      <<"hack", "tag", "w">>,               \* a word only before sanitizing
      <<"tag", "hack">>,                    \* prohibited once sanitized
      <<"ssn">>,                            \* sensitive data
      Words(MAX_QUERY_LENGTH),              \* as long as allowed
      Words(MAX_QUERY_LENGTH + 1),          \* too long
      <<"js">> \o Words(MAX_QUERY_LENGTH) } \* too long and denylisted

\* The optional context argument (a retrieved chunk).
Contexts == {None, "chunk"}

\* A token that begins, or ends, with a word character (for \b in a regex).
StartsWord(t) == t \in {"w", "js", "sql", "hack", "fraud", "ssn"}
EndsWord(t) == t \in {"w", "sql", "hack", "fraud", "ssn"}

\* \b on both sides of the token at position i.
WholeWordAt(s, i) ==
    /\ (i = 1 \/ ~EndsWord(s[i - 1]))
    /\ (i = Len(s) \/ ~StartsWord(s[i + 1]))

\* not user_input or not user_input.strip()
IsBlank(s) == \A i \in 1..Len(s) : s[i] = "sp"

(***************************************************************************)
(* SecurityManager.validate_input and its helpers.                         *)
(***************************************************************************)
\* self.blocked_patterns, in order; the patterns that have a token here.
blocked_patterns == <<"javascript:", "\\bDROP\\b.*\\bTABLE\\b">>

\* re.search(pattern, user_input_lower, re.IGNORECASE)
PatternMatches(pattern, s) ==
    IF pattern = "javascript:"
    THEN \E i \in 1..Len(s) : s[i] = "js"
    ELSE \E i \in 1..Len(s) : s[i] = "sql" /\ WholeWordAt(s, i)

MatchesDenylist(s) ==
    \E k \in 1..Len(blocked_patterns) : PatternMatches(blocked_patterns[k], s)

\* re.sub(r'<[^>]+>', '', user_input)
StripTags(s) == SelectSeq(s, LAMBDA t : t # "tag")

\* re.sub(r'\s+', ' ', cleaned)
RECURSIVE CollapseBlanks(_)
CollapseBlanks(s) ==
    IF Len(s) <= 1 THEN s
    ELSE IF s[1] = "sp" /\ s[2] = "sp" THEN CollapseBlanks(Tail(s))
    ELSE <<s[1]>> \o CollapseBlanks(Tail(s))

\* str.strip()
RECURSIVE Strip(_)
Strip(s) ==
    IF s = <<>> THEN s
    ELSE IF Head(s) = "sp" THEN Strip(Tail(s))
    ELSE IF s[Len(s)] = "sp" THEN Strip(SubSeq(s, 1, Len(s) - 1))
    ELSE s

sanitize_input(user_input) == Strip(CollapseBlanks(StripTags(user_input)))

EmptyInputMsg == <<"Empty input not allowed">>
TooLongMsg == <<"Input too long. Maximum MAX_QUERY_LENGTH characters allowed.">>
MaliciousMsg == <<"Input contains potentially malicious content">>

\* The denylist is consulted before the length.
validate_input_DenylistFirst(log, user_input) ==
    IF IsBlank(user_input)
    THEN [valid |-> FALSE, value |-> EmptyInputMsg, events |-> log]
    ELSE IF MatchesDenylist(user_input)
    THEN [valid |-> FALSE, value |-> MaliciousMsg,
          events |-> log_security_event(log, "MALICIOUS_INPUT_DETECTED", "CRITICAL")]
    ELSE IF Len(user_input) > MAX_QUERY_LENGTH
    THEN [valid |-> FALSE, value |-> TooLongMsg,
          events |-> log_security_event(log, "INPUT_TOO_LONG", "WARNING")]
    ELSE [valid |-> TRUE, value |-> sanitize_input(user_input), events |-> log]

\* Returns (is_valid, cleaned_input) and the security log after the call.
validate_input(log, user_input) ==
    IF IsBlank(user_input)
    THEN [valid |-> FALSE, value |-> EmptyInputMsg, events |-> log]
    ELSE IF Len(user_input) > MAX_QUERY_LENGTH
    THEN [valid |-> FALSE, value |-> TooLongMsg,
          events |-> log_security_event(log, "INPUT_TOO_LONG", "WARNING")]
    ELSE IF MatchesDenylist(user_input)
    THEN [valid |-> FALSE, value |-> MaliciousMsg,
          events |-> log_security_event(log, "MALICIOUS_INPUT_DETECTED", "CRITICAL")]
    ELSE [valid |-> TRUE, value |-> sanitize_input(user_input), events |-> log]

(***************************************************************************)
(* SecurityManager.check_content_policy                                    *)
(***************************************************************************)
\* prohibited_patterns, in order; the categories that have a token here.
prohibited_patterns ==
    << <<"hack", "Security-related content">>,
       <<"fraud", "Illegal activity content">> >>

\* re.search(r'\b(word)\b', text_lower)
ContainsWord(text, word) ==
    \E i \in 1..Len(text) : text[i] = word /\ WholeWordAt(text, i)

RECURSIVE FirstProhibited(_, _)
FirstProhibited(text, k) ==
    IF k > Len(prohibited_patterns) THEN 0
    ELSE IF ContainsWord(text, prohibited_patterns[k][1]) THEN k
    ELSE FirstProhibited(text, k + 1)

check_content_policy(log, text) ==
    LET k == FirstProhibited(text, 1)
    IN  IF k # 0
        THEN [ok |-> FALSE,
              msg |-> <<"Content violates policy", prohibited_patterns[k][2]>>,
              events |-> log_security_event(log, "CONTENT_POLICY_VIOLATION", "WARNING")]
        ELSE [ok |-> TRUE, msg |-> <<"Content approved">>, events |-> log]

(***************************************************************************)
(* SecurityManager.redact_sensitive_data, on a reply made of the tokens    *)
(* "txt" (plain text) and "ssn" (an SSN-shaped digit sequence).            *)
(***************************************************************************)
Replies == {<<"txt">>, <<"txt", "ssn">>}

redact_sensitive_data(text) ==
    [i \in 1..Len(text) |-> IF text[i] = "ssn" THEN "[SSN_REDACTED]" ELSE text[i]]

(***************************************************************************)
(* The generation backend (client.converse) and the environment of a call. *)
(***************************************************************************)
ClientErrorCodes ==
    {"AccessDeniedException",        \* authorization / capability failure
     "ThrottlingException",          \* throttling
     "ServiceUnavailableException",  \* transient
     "ValidationException",          \* malformed request
     "UnknownError"}                 \* any other error code

\* What one converse call does: a well-formed response, a response without
\* the expected keys, a ClientError, or an exception that is no ClientError
\* (BotoCoreError: connection, timeout).
BackendOutcomes == {"ok", "malformed", "BotoCoreError"} \cup ClientErrorCodes

\* Measured duration of a call, in seconds.
ResponseTimes == {1, 2}

VARIABLES
    use_mock,             \* LLMService.use_mock
    mock_service,         \* LLMService.mock_service is set
    client,               \* LLMService.client is set
    total_requests,       \* LLMService.total_requests
    total_response_time,  \* LLMService.total_response_time
    error_count,          \* LLMService.error_count
    mock_requests,        \* MockLLMService.total_requests
    mock_response_time,   \* MockLLMService.total_response_time
    backend_calls,        \* history: number of client.converse invocations
    last_call,            \* history: the last generate_response call
                          \* (meaningful once ncalls > 0)
    access_denied_seen,   \* history: some call met an AccessDenied failure
    ncalls                \* history: number of generate_response calls

llm_vars == <<use_mock, mock_service, client, total_requests,
              total_response_time, error_count, mock_requests,
              mock_response_time, backend_calls, last_call,
              access_denied_seen, ncalls>>

VARIABLES
    rl_pc,             \* per thread: its position inside check_rate_limit
    rl_frame           \* per thread: the locals client_id, now, current_requests

conc_vars == <<rl_pc, rl_frame>>

VARIABLES
    gr_pc,             \* per thread: its position inside generate_response
    gr_frame,          \* per thread: the pending += (attribute, value loaded,
                       \* amount to add)
    gr_counted,        \* history: calls that went past the mock delegation
    gr_errored         \* history: calls that took an error-counting path

count_vars == <<gr_pc, gr_frame, gr_counted, gr_errored>>

VARIABLES
    lines,             \* the lines of the page being trimmed
    trim,              \* the state of the trimming loop after the page
    trim_done          \* the page has been trimmed

trim_vars == <<lines, trim, trim_done>>

VARIABLES
    directory,         \* the files found by os.walk(directory), in its order
    extracted,         \* what extract_chunks_from_pdf returned or raised
    extract_done       \* extract_chunks_from_pdf has run

extract_vars == <<directory, extracted, extract_done>>

VARIABLES
    rag,               \* RAGSystem: whether the chunks and the index are
                       \* loaded, self.chunks, self.file_names
    query,             \* the last question submitted and what became of it
                       \* (meaningful once nqueries > 0)
    nqueries           \* history: number of questions submitted

query_vars == <<rag, query, nqueries>>

VARIABLES
    stats,             \* what get_performance_stats returned last
    nstats             \* history: get_performance_stats has been called

stats_vars == <<stats, nstats>>

VARIABLES
    health,            \* what health_check returned last, and its canary call
    nhealth            \* history: number of health_check calls

health_vars == <<health, nhealth>>

VARIABLES
    answers,           \* the batch given to generate_answers and its report
    nanswers           \* history: number of generate_answers calls

answers_vars == <<answers, nanswers>>

VARIABLES
    validation,        \* the input given to validate_input and what it returned
    nvalidations       \* history: validate_input has been called

validation_vars == <<validation, nvalidations>>

VARIABLES
    session,           \* the last page run: what get_session_info returned
    nrenders           \* history: number of page runs

session_vars == <<session, nrenders>>

vars == <<now, rate_limit_store, events, rl_result, allowed_log, nchecks,
          use_mock, mock_service, client, total_requests,
          total_response_time, error_count, mock_requests,
          mock_response_time, backend_calls, last_call,
          access_denied_seen, ncalls,
          rl_pc, rl_frame,
          gr_pc, gr_frame, gr_counted, gr_errored,
          lines, trim, trim_done,
          directory, extracted, extract_done,
          rag, query, nqueries,
          stats, nstats,
          health, nhealth,
          answers, nanswers,
          validation, nvalidations,
          session, nrenders>>

\* The fields of the service (and of the logger) that a call reads or writes.
Service ==
    [use_mock |-> use_mock, mock_service |-> mock_service, client |-> client,
     total_requests |-> total_requests,
     total_response_time |-> total_response_time,
     error_count |-> error_count, mock_requests |-> mock_requests,
     mock_response_time |-> mock_response_time,
     backend_calls |-> backend_calls, events |-> events]

(***************************************************************************)
(* Results.  A dict without the key service_type has service_type = None.  *)
(***************************************************************************)
Failure(err, rt) ==
    [raised |-> FALSE, success |-> FALSE, error |-> err, response |-> NoText,
     response_time |-> rt, service_type |-> None]

Success(text, rt) ==
    [raised |-> FALSE, success |-> TRUE, error |-> NoText, response |-> text,
     response_time |-> rt, service_type |-> None]

\* The call does not return: the exception leaves generate_response.
Raised(exc) ==
    [raised |-> TRUE, success |-> FALSE, error |-> <<exc.type, exc.code>>,
     response |-> NoText, response_time |-> 0, service_type |-> None]

NoException == [type |-> None, code |-> None]

Return(s, r, sent) == [s |-> s, exc |-> NoException, result |-> r, sent |-> sent]
Raise(s, type, code, sent) ==
    [s |-> s, exc |-> [type |-> type, code |-> code], result |-> None, sent |-> sent]

(***************************************************************************)
(* MockLLMService.generate_response                                        *)
(***************************************************************************)
\* prompt[:50]
MOCK_PREVIEW_LEN == 50

Prefix(s, n) == SubSeq(s, 1, IF Len(s) < n THEN Len(s) ELSE n)

MockGenerate(s, prompt, dt) ==
    [s |-> [s EXCEPT !.mock_requests = @ + 1, !.mock_response_time = @ + dt],
     result |-> Success(<<"Mock response to:">> \o Prefix(prompt, MOCK_PREVIEW_LEN)
                          \o <<"This is a demonstration response.">>, dt)]

(***************************************************************************)
(* LLMService._generate_mock_response                                      *)
(***************************************************************************)
MockNotice == "Using Mock Service"

_generate_mock_response(s, prompt, dt) ==
    IF s.mock_service
    THEN LET m == MockGenerate(s, prompt, dt)
         IN  IF m.result.success
             THEN [s |-> m.s,
                   result |-> [m.result EXCEPT
                                 !.response = Append(@, MockNotice),
                                 !.service_type = "mock"]]
             ELSE m
    ELSE [s |-> s,
          result |-> Failure(<<"Both Bedrock and mock services unavailable">>, 0)]

(***************************************************************************)
(* LLMService._initialize_mock_service: the import of the mock service     *)
(* succeeds (import_ok) or raises ImportError, which is logged.            *)
(***************************************************************************)
_initialize_mock_service(s, import_ok) ==
    IF import_ok
    THEN [s EXCEPT !.mock_service = TRUE, !.use_mock = TRUE]
    ELSE s

(***************************************************************************)
(* LLMService.generate_response                                            *)
(***************************************************************************)
DelegatesToMock_Never(s) == FALSE

\* if self.use_mock and self.mock_service: delegate to the mock service
DelegatesToMock(s) == s.use_mock /\ s.mock_service

\* if not is_valid: return the failed result
ValidationRejects(v) == ~v.valid

PolicyRejects_Ignored(p) == FALSE

\* if not policy_ok: return the failed result
PolicyRejects(p) == ~p.ok

\* f"Context: {context}\n\nQuestion: {cleaned_prompt}\n\nPlease provide ..."
FullPrompt(context, cleaned_prompt) ==
    IF context # None
    THEN <<"Context:", context, "Question:">> \o cleaned_prompt \o <<"Please provide">>
    ELSE cleaned_prompt

\* The body of the try block.  env is what the environment does during the
\* call: outcome and reply of converse, whether a missing client can be
\* created, whether the mock service can be imported, and the duration.
TryBlock(s, prompt, context, env) ==
    IF IsBlank(prompt)
    THEN Return(s, Failure(<<"Input cannot be empty.">>, 0), NoText)
    ELSE
    LET v == validate_input(s.events, prompt)
    IN  IF ValidationRejects(v)
        THEN Return([s EXCEPT !.events = v.events], Failure(v.value, 0), NoText)
        ELSE
        LET p == check_content_policy(v.events, v.value)
            s1 == [s EXCEPT !.events = p.events]
        IN  IF PolicyRejects(p)
            THEN Return(s1, Failure(p.msg, 0), NoText)
            ELSE
            IF ~s1.client /\ ~env.client_ok
            THEN Raise(s1, "ValueError", None, NoText)
            ELSE
            LET s2 == [s1 EXCEPT !.client = TRUE, !.backend_calls = @ + 1]
                sent == FullPrompt(context, v.value)
            IN  CASE env.outcome = "ok" ->
                       Return([s2 EXCEPT !.total_response_time = @ + env.dt],
                              Success(redact_sensitive_data(env.reply), env.dt),
                              sent)
                  [] env.outcome = "malformed" ->
                       Return(s2,
                              Failure(<<"Unexpected response format from Bedrock.">>,
                                      env.dt),
                              sent)
                  [] env.outcome \in ClientErrorCodes ->
                       Raise(s2, "ClientError", env.outcome, sent)
                  [] OTHER ->
                       Raise(s2, env.outcome, None, sent)

IsAccessDenied_AnyCode(exc) == TRUE

\* if "AccessDeniedException" in str(e)
IsAccessDenied(exc) == exc.code = "AccessDeniedException"

\* except ClientError as e
ExceptClientError(s, exc, prompt, env) ==
    LET s1 == IF IsAccessDenied(exc)
              THEN _initialize_mock_service(s, env.import_ok)
              ELSE s
    IN  IF IsAccessDenied(exc) /\ s1.mock_service
        THEN _generate_mock_response(s1, prompt, env.dt)
        ELSE [s |-> [s1 EXCEPT !.error_count = @ + 1],
              result |-> Failure(<<"[Bedrock API Error]", exc.code>>, env.dt)]

\* No handler for exceptions that are no ClientError.
ExceptException_Unhandled(s, exc, prompt, env) ==
    [s |-> s, result |-> Raised(exc)]

\* except Exception as e
ExceptException(s, exc, prompt, env) ==
    LET s1 == _initialize_mock_service(s, env.import_ok)
    IN  IF s1.mock_service
        THEN _generate_mock_response(s1, prompt, env.dt)
        ELSE [s |-> [s1 EXCEPT !.error_count = @ + 1],
              result |-> Failure(<<"[Unexpected Error]", exc.type>>, env.dt)]

\* The try statement: its body, and the handler of the exception it raises.
TryExcept(s, prompt, context, env) ==
    LET t == TryBlock(s, prompt, context, env)
    IN  IF t.exc = NoException
        THEN [s |-> t.s, result |-> t.result, exc |-> t.exc, sent |-> t.sent]
        ELSE LET h == IF t.exc.type = "ClientError"
                      THEN ExceptClientError(t.s, t.exc, prompt, env)
                      ELSE ExceptException(t.s, t.exc, prompt, env)
             IN  [s |-> h.s, result |-> h.result, exc |-> t.exc, sent |-> t.sent]

\* The request is counted before the delegation to the mock service.
generate_response_CountedFirst(s, prompt, context, env) ==
    LET counted == [s EXCEPT !.total_requests = @ + 1]
    IN  IF DelegatesToMock(counted)
        THEN LET m == _generate_mock_response(counted, prompt, env.dt)
             IN  [s |-> m.s, result |-> m.result, exc |-> NoException,
                  sent |-> NoText]
        ELSE TryExcept(counted, prompt, context, env)

\* The whole call: the service after it, the result, and for the record the
\* exception that reached a handler and the prompt sent to the backend.
generate_response(s, prompt, context, env) ==
    IF DelegatesToMock(s)
    THEN LET m == _generate_mock_response(s, prompt, env.dt)
         IN  [s |-> m.s, result |-> m.result, exc |-> NoException, sent |-> NoText]
    ELSE
    TryExcept([s EXCEPT !.total_requests = @ + 1], prompt, context, env)

\* What the environment does during one call.
Env(outcome, reply, client_ok, import_ok, dt) ==
    [outcome |-> outcome, reply |-> reply, client_ok |-> client_ok,
     import_ok |-> import_ok, dt |-> dt]

\* Everything works: the backend answers, client and mock service load.
CalmEnv(dt) == Env("ok", <<"txt">>, TRUE, TRUE, dt)

\* The environments of a call that gets as far as the backend.  A reply is
\* read only from a well-formed response, and a client is created only when
\* the service has none.
Environments(s) ==
    {Env("ok", r, TRUE, TRUE, d) : r \in Replies, d \in ResponseTimes}
    \cup {Env("malformed", <<"txt">>, TRUE, TRUE, d) : d \in ResponseTimes}
    \cup UNION {{Env(o, <<"txt">>, TRUE, i, d) : i \in BOOLEAN, d \in ResponseTimes} :
                  o \in ClientErrorCodes \cup {"BotoCoreError"}}
    \cup (IF s.client THEN {}
          ELSE {Env("ok", <<"txt">>, FALSE, i, d) : i \in BOOLEAN, d \in ResponseTimes})

\* The inputs of the environment that a call with this prompt can observe:
\* a call that ends before the backend even when everything works sees at
\* most the duration of the call.
Observable(s, prompt) ==
    LET calm == generate_response(s, prompt, None, CalmEnv(1))
    IN  IF calm.s.backend_calls # s.backend_calls
        THEN Contexts \X Environments(s)
        ELSE IF calm.result.response_time = 0
        THEN {<<None, CalmEnv(1)>>}
        ELSE {<<None, CalmEnv(d)>> : d \in ResponseTimes}

GenerateResponse ==
    /\ ncalls < MaxCalls
    /\ \E prompt \in Prompts :
         \E ce \in Observable(Service, prompt) :
            \E c \in {generate_response(Service, prompt, ce[1], ce[2])} :
            LET context == ce[1]
                env == ce[2]
            IN  /\ use_mock' = c.s.use_mock
                /\ mock_service' = c.s.mock_service
                /\ client' = c.s.client
                /\ total_requests' = c.s.total_requests
                /\ total_response_time' = c.s.total_response_time
                /\ error_count' = c.s.error_count
                /\ mock_requests' = c.s.mock_requests
                /\ mock_response_time' = c.s.mock_response_time
                /\ backend_calls' = c.s.backend_calls
                /\ events' = c.s.events
                /\ last_call' = [prompt |-> prompt, context |-> context,
                                 mock_before |-> use_mock,
                                 attempts |-> c.s.backend_calls - backend_calls,
                                 outcome |-> IF c.s.backend_calls = backend_calls
                                             THEN None ELSE env.outcome,
                                 import_ok |-> env.import_ok,
                                 exc |-> c.exc, sent |-> c.sent,
                                 result |-> c.result]
                /\ access_denied_seen' =
                     (access_denied_seen \/ c.exc.code = "AccessDeniedException")
    /\ ncalls' = ncalls + 1
    /\ UNCHANGED <<now, rate_limit_store, rl_result, allowed_log, nchecks>>

(***************************************************************************)
(* LLMService.__init__ and _initialize_client: the Bedrock client is       *)
(* created, or its creation fails and the mock service is initialized,     *)
(* which in turn succeeds or fails on the import.                          *)
(***************************************************************************)
InitLLM ==
    /\ total_requests = 0
    /\ total_response_time = 0
    /\ error_count = 0
    /\ mock_requests = 0
    /\ mock_response_time = 0
    /\ backend_calls = 0
    /\ last_call = [prompt |-> <<>>, context |-> None, mock_before |-> FALSE,
                    attempts |-> 0, outcome |-> None, import_ok |-> TRUE,
                    exc |-> NoException,
                    sent |-> NoText, result |-> Failure(NoText, 0)]
    /\ ncalls = 0
    /\ access_denied_seen = FALSE
    /\ \E client_ok \in BOOLEAN, import_ok \in BOOLEAN :
         /\ client = client_ok
         /\ mock_service = (~client_ok /\ import_ok)
         /\ use_mock = (~client_ok /\ import_ok)

(***************************************************************************)
(* SecurityManager.check_rate_limit run by several threads on the one      *)
(* module-level security_manager (security.py 180-181).  The method takes  *)
(* no lock, so the threads interleave between its statements:              *)
(*   "idle"    outside the method                                          *)
(*   "test"    at the condition of the while loop                          *)
(*   "pop"     inside the loop, before popleft()                           *)
(*   "count"   before current_requests = len(...)                          *)
(*   "decide"  before the comparison with the limit                        *)
(***************************************************************************)
Threads == {"t1", "t2"}

NoFrame == [client_id |-> None, now |-> 0, current_requests |-> 0]

\* now = time.time(); minute_ago = now - 60
T_Enter(t) ==
    /\ rl_pc[t] = "idle"
    /\ nchecks < MaxThreadChecks
    /\ nchecks' = nchecks + 1
    /\ \E client_id \in Clients :
         rl_frame' = [rl_frame EXCEPT ![t] = [client_id |-> client_id,
                                              now |-> now,
                                              current_requests |-> 0]]
    /\ rl_pc' = [rl_pc EXCEPT ![t] = "test"]
    /\ UNCHANGED <<now, rate_limit_store, events, rl_result, allowed_log>>

\* while self.rate_limit_store[client_id] and
\*       self.rate_limit_store[client_id][0] < minute_ago:
T_Test(t) ==
    /\ rl_pc[t] = "test"
    /\ LET q == rate_limit_store[rl_frame[t].client_id]
       IN  rl_pc' = [rl_pc EXCEPT ![t] =
                        IF q # <<>> /\ Head(q) < rl_frame[t].now - WINDOW
                        THEN "pop" ELSE "count"]
    /\ UNCHANGED <<now, rate_limit_store, events, rl_result, allowed_log,
                   nchecks, rl_frame>>

\* self.rate_limit_store[client_id].popleft(): removes whatever is the head
\* by now; on a deque another thread has emptied it raises IndexError and
\* the call ends without a result.
T_Pop(t) ==
    /\ rl_pc[t] = "pop"
    /\ LET client_id == rl_frame[t].client_id
           q == rate_limit_store[client_id]
       IN  IF q # <<>>
           THEN /\ rate_limit_store' =
                     [rate_limit_store EXCEPT ![client_id] = Tail(q)]
                /\ rl_pc' = [rl_pc EXCEPT ![t] = "test"]
                /\ rl_frame' = rl_frame
           ELSE /\ rate_limit_store' = rate_limit_store
                /\ rl_pc' = [rl_pc EXCEPT ![t] = "idle"]
                /\ rl_frame' = [rl_frame EXCEPT ![t] = NoFrame]
    /\ UNCHANGED <<now, events, rl_result, allowed_log, nchecks>>

\* current_requests = len(self.rate_limit_store[client_id])
T_Count(t) ==
    /\ rl_pc[t] = "count"
    /\ rl_frame' = [rl_frame EXCEPT ![t].current_requests =
                       Len(rate_limit_store[rl_frame[t].client_id])]
    /\ rl_pc' = [rl_pc EXCEPT ![t] = "decide"]
    /\ UNCHANGED <<now, rate_limit_store, events, rl_result, allowed_log,
                   nchecks>>

\* if current_requests >= Config.RATE_LIMIT_PER_MINUTE:
\*     log_security_event("RATE_LIMIT_EXCEEDED", ..., "WARNING")
\*     return False, 0
T_Blocked(t) ==
    /\ rl_pc[t] = "decide"
    /\ LimitReached(rl_frame[t].current_requests)
    /\ events' = log_security_event(events, "RATE_LIMIT_EXCEEDED", "WARNING")
    /\ rl_result' = [client |-> rl_frame[t].client_id, at |-> rl_frame[t].now,
                     before |-> rate_limit_store[rl_frame[t].client_id],
                     allowed |-> FALSE, remaining |-> 0]
    /\ rl_pc' = [rl_pc EXCEPT ![t] = "idle"]
    /\ rl_frame' = [rl_frame EXCEPT ![t] = NoFrame]
    /\ UNCHANGED <<now, rate_limit_store, allowed_log, nchecks>>

\* self.rate_limit_store[client_id].append(now); return True, remaining
T_Append(t) ==
    /\ rl_pc[t] = "decide"
    /\ ~LimitReached(rl_frame[t].current_requests)
    /\ LET client_id == rl_frame[t].client_id
       IN  /\ rate_limit_store' =
                [rate_limit_store EXCEPT ![client_id] = Append(@, rl_frame[t].now)]
           /\ allowed_log' =
                [allowed_log EXCEPT ![client_id] = Append(@, rl_frame[t].now)]
           /\ rl_result' = [client |-> client_id, at |-> rl_frame[t].now,
                            before |-> rate_limit_store[client_id],
                            allowed |-> TRUE,
                            remaining |-> Remaining(rl_frame[t].current_requests)]
    /\ rl_pc' = [rl_pc EXCEPT ![t] = "idle"]
    /\ rl_frame' = [rl_frame EXCEPT ![t] = NoFrame]
    /\ UNCHANGED <<now, events, nchecks>>

\* Time passes while the threads run.
T_AdvanceClock == AdvanceClock /\ UNCHANGED conc_vars

InitConc ==
    /\ rl_pc = [t \in Threads |-> "idle"]
    /\ rl_frame = [t \in Threads |-> NoFrame]

(***************************************************************************)
(* LLMService.generate_response run by several threads on the one          *)
(* module-level llm_service (llm_service.py 320-321).  No lock is taken,   *)
(* and an augmented assignment  self.x += d  is a load of self.x followed  *)
(* by a store of the sum, with other threads running in between:           *)
(*   "idle"    outside the method                                          *)
(*   "load"    past the mock delegation, before the load of total_requests *)
(*   "body"    total_requests loaded, before its store                     *)
(*   "try"     before the try statement                                    *)
(*   "store"   the try statement done up to the store of a pending +=      *)
(* The prompt and the environment of a call are drawn when its try         *)
(* statement runs; nothing before that reads them.                         *)
(***************************************************************************)
NoPending == [attr |-> None, loaded |-> 0, add |-> 0]

\* The inputs of the environment that the try statement can observe.
ObservableInTry(s, prompt) ==
    LET calm == TryExcept(s, prompt, None, CalmEnv(1))
    IN  IF calm.s.backend_calls # s.backend_calls
        THEN Contexts \X Environments(s)
        ELSE {<<None, CalmEnv(1)>>}

\* if self.use_mock and self.mock_service:
\*     return self._generate_mock_response(prompt, start_time)
G_Enter(t) ==
    /\ gr_pc[t] = "idle"
    /\ ncalls < MaxCalls
    /\ ncalls' = ncalls + 1
    /\ IF DelegatesToMock(Service)
       THEN /\ \E prompt \in Prompts, dt \in ResponseTimes :
                  \E m \in {_generate_mock_response(Service, prompt, dt)} :
                     /\ mock_requests' = m.s.mock_requests
                     /\ mock_response_time' = m.s.mock_response_time
            /\ gr_pc' = gr_pc
       ELSE /\ gr_pc' = [gr_pc EXCEPT ![t] = "load"]
            /\ UNCHANGED <<mock_requests, mock_response_time>>
    /\ UNCHANGED <<use_mock, mock_service, client, total_requests,
                   total_response_time, error_count, backend_calls, events,
                   last_call, access_denied_seen, gr_frame, gr_counted,
                   gr_errored>>

\* self.total_requests += 1: the load
G_LoadTotal(t) ==
    /\ gr_pc[t] = "load"
    /\ gr_frame' = [gr_frame EXCEPT ![t] = [attr |-> "total_requests",
                                            loaded |-> total_requests,
                                            add |-> 1]]
    /\ gr_pc' = [gr_pc EXCEPT ![t] = "body"]
    /\ UNCHANGED <<llm_vars, events, gr_counted, gr_errored>>

\* self.total_requests += 1: the store
G_StoreTotal(t) ==
    /\ gr_pc[t] = "body"
    /\ total_requests' = gr_frame[t].loaded + gr_frame[t].add
    /\ gr_counted' = gr_counted + 1
    /\ gr_frame' = [gr_frame EXCEPT ![t] = NoPending]
    /\ gr_pc' = [gr_pc EXCEPT ![t] = "try"]
    /\ UNCHANGED <<use_mock, mock_service, client, total_response_time,
                   error_count, mock_requests, mock_response_time,
                   backend_calls, last_call, access_denied_seen, ncalls,
                   events, gr_errored>>

\* The try statement up to the store of its  self.error_count += 1  or
\* self.total_response_time += response_time, whose load it includes.
G_Try(t) ==
    /\ gr_pc[t] = "try"
    /\ \E prompt \in Prompts :
         \E ce \in ObservableInTry(Service, prompt) :
            \E c \in {TryExcept(Service, prompt, ce[1], ce[2])} :
               /\ use_mock' = c.s.use_mock
               /\ mock_service' = c.s.mock_service
               /\ client' = c.s.client
               /\ mock_requests' = c.s.mock_requests
               /\ mock_response_time' = c.s.mock_response_time
               /\ backend_calls' = c.s.backend_calls
               /\ events' = c.s.events
               /\ access_denied_seen' =
                    (access_denied_seen \/ c.exc.code = "AccessDeniedException")
               /\ gr_errored' = IF c.s.error_count # error_count
                                THEN gr_errored + 1 ELSE gr_errored
               /\ gr_frame' = [gr_frame EXCEPT ![t] =
                      IF c.s.error_count # error_count
                      THEN [attr |-> "error_count", loaded |-> error_count,
                            add |-> c.s.error_count - error_count]
                      ELSE IF c.s.total_response_time # total_response_time
                      THEN [attr |-> "total_response_time",
                            loaded |-> total_response_time,
                            add |-> c.s.total_response_time - total_response_time]
                      ELSE NoPending]
               /\ gr_pc' = [gr_pc EXCEPT ![t] =
                      IF c.s.error_count # error_count
                         \/ c.s.total_response_time # total_response_time
                      THEN "store" ELSE "idle"]
    /\ UNCHANGED <<total_requests, total_response_time, error_count,
                   last_call, ncalls, gr_counted>>

\* self.error_count += 1, self.total_response_time += response_time:
\* the store
G_Store(t) ==
    /\ gr_pc[t] = "store"
    /\ IF gr_frame[t].attr = "error_count"
       THEN /\ error_count' = gr_frame[t].loaded + gr_frame[t].add
            /\ total_response_time' = total_response_time
       ELSE /\ total_response_time' = gr_frame[t].loaded + gr_frame[t].add
            /\ error_count' = error_count
    /\ gr_frame' = [gr_frame EXCEPT ![t] = NoPending]
    /\ gr_pc' = [gr_pc EXCEPT ![t] = "idle"]
    /\ UNCHANGED <<use_mock, mock_service, client, total_requests,
                   mock_requests, mock_response_time, backend_calls,
                   last_call, access_denied_seen, ncalls, events,
                   gr_counted, gr_errored>>

InitCount ==
    /\ gr_pc = [t \in Threads |-> "idle"]
    /\ gr_frame = [t \in Threads |-> NoPending]
    /\ gr_counted = 0
    /\ gr_errored = 0


(***************************************************************************)
(* extract_chunks_from_pdf, the noise trimming of one page                 *)
(* (Extract_PDF.py 38-51).  A line is known by its position on the page    *)
(* and by its kind:                                                        *)
(*   "short"   len(line) < 3                                               *)
(*   "sparse"  len(line) >= 3 and fewer than 5 tokens                      *)
(*   "dense"   len(line) >= 3 and at least 5 tokens                        *)
(***************************************************************************)
LineKinds == {"short", "sparse", "dense"}

\* if len(line) < 3: continue
IsShort(line) == line.kind = "short"

\* len(tokens) < 5
IsSparse(line) == line.kind = "sparse"

IsDense(line) == line.kind = "dense"

\* The lengths of the runs that make up a page: around the threshold.
RunLengths == {1, SPARSE_RUN - 1, SPARSE_RUN, SPARSE_RUN + 1, SPARSE_RUN + 2}

Repeat(kind, n) == [i \in 1..n |-> kind]

RECURSIVE Flatten(_)
Flatten(runs) ==
    IF runs = <<>> THEN <<>>
    ELSE Repeat(Head(runs)[1], Head(runs)[2]) \o Flatten(Tail(runs))

\* The pages of up to max runs, each of one kind and of one of the lengths.
PageShapes(max) ==
    UNION {[1..n -> LineKinds \X RunLengths] : n \in 0..max}

\* lines = text.split('\n')
Numbered(kinds) == [i \in 1..Len(kinds) |-> [kind |-> kinds[i], idx |-> i]]

Pages(max) == {Numbered(Flatten(shape)) : shape \in PageShapes(max)}

\* count = 0; tem_text = []   (fired and removed are history: the lines at
\* which the drop fired and what each drop removed)
TrimStart == [tem_text |-> <<>>, count |-> 0, fired |-> <<>>, removed |-> <<>>]

\* tem_text[0:-20]
DropLast(tem_text) ==
    IF Len(tem_text) <= SPARSE_RUN THEN <<>>
    ELSE SubSeq(tem_text, 1, Len(tem_text) - SPARSE_RUN)

\* tem_text[-20:]
Last(tem_text) ==
    IF Len(tem_text) <= SPARSE_RUN THEN tem_text
    ELSE SubSeq(tem_text, Len(tem_text) - SPARSE_RUN + 1, Len(tem_text))

DropDue_AtOrAbove(count) == count >= SPARSE_RUN

\* if count == 20
DropDue(count) == count = SPARSE_RUN

\* One iteration of  for line in lines.
TrimLine(st, line) ==
    IF IsShort(line)
    THEN st
    ELSE
    LET st1 == IF DropDue(st.count)
               THEN [st EXCEPT !.tem_text = DropLast(@),
                               !.fired = Append(@, line.idx),
                               !.removed = Append(@, Last(st.tem_text))]
               ELSE st
    IN  IF IsSparse(line) /\ st1.count >= SPARSE_RUN
        THEN [st1 EXCEPT !.count = @ + 1]
        ELSE [st1 EXCEPT !.count = IF IsSparse(line) THEN @ + 1 ELSE 0,
                         !.tem_text = Append(@, line)]

RECURSIVE TrimFrom(_, _, _)
TrimFrom(ls, i, st) ==
    IF i > Len(ls) THEN st
    ELSE LET next == TrimLine(st, ls[i])
         IN  \* the loop state is computed line by line
             IF next.count >= 0 THEN TrimFrom(ls, i + 1, next) ELSE next

\* The loop over the lines of one page.
TrimPage(ls) == TrimFrom(ls, 1, TrimStart)

Trim ==
    /\ ~trim_done
    /\ trim' = TrimPage(lines)
    /\ trim_done' = TRUE
    /\ lines' = lines

InitTrim ==
    /\ lines = <<>>
    /\ trim = TrimStart
    /\ trim_done = FALSE

\* The page is any of the pages.
InitTrimPages ==
    /\ lines \in Pages(MaxRuns)
    /\ trim = TrimStart
    /\ trim_done = FALSE


(***************************************************************************)
(* extract_chunks_from_pdf (Extract_PDF.py 9-56).  A file has a stem and   *)
(* an extension; a PDF file can be opened and read or not, and has pages.  *)
(* A page is a sequence of lines; the line "url" is the line               *)
(* www.psands.com, and every line carries the file and page it is from.    *)
(* A text joined from lines ("\n".join) is kept as the sequence of lines.  *)
(***************************************************************************)
\* A file name is a sequence of parts, each a run of digits or a run of
\* other characters.
DigitRuns == {"101", "202", "2"}

Stems == << <<"Project ", "101">>, <<"Report ", "202">>,
            <<"Sheet ", "101", " rev ", "2">>, <<"Overview">> >>

\* The texts a page can have, as the kinds of its lines.
PageTexts == {<<"dense">>, <<"sparse", "short", "dense">>, <<"url", "dense">>}

PageOf(file, p, kinds) ==
    [i \in 1..Len(kinds) |-> [kind |-> kinds[i], idx |-> i, file |-> file, page |-> p]]

DocumentOf(file, texts) == [p \in 1..Len(texts) |-> PageOf(file, p, texts[p])]

\* The files position i of a directory can hold.
FilesAt(i) ==
    {[stem |-> Stems[i], ext |-> "txt", readable |-> TRUE, pages |-> <<>>],
     [stem |-> Stems[i], ext |-> "pdf", readable |-> FALSE, pages |-> <<>>]}
    \cup {[stem |-> Stems[i], ext |-> "pdf", readable |-> TRUE,
           pages |-> DocumentOf(Stems[i], texts)] :
             texts \in UNION {[1..n -> PageTexts] : n \in 0..MaxPages}}

\* The directories of up to max files.
RECURSIVE Directories(_)
Directories(max) ==
    IF max = 0 THEN {<<>>}
    ELSE LET shorter == Directories(max - 1)
         IN  shorter \cup {Append(d, f) : d \in {e \in shorter : Len(e) = max - 1},
                                          f \in FilesAt(max)}

\* if file.lower().endswith(".pdf")
IsPdf(file) == file.ext = "pdf"

\* text = text.replace("www.psands.com", ""): the line that is the URL
\* becomes the empty line.
StripWatermark(page) ==
    [i \in 1..Len(page) |->
        IF page[i].kind = "url" THEN [page[i] EXCEPT !.kind = "short"] ELSE page[i]]

\* One page: text = "\n".join(tem_text)
PageText(page) == TrimPage(StripWatermark(page)).tem_text

\* chunks.append(text), inside the loop over the pages: one chunk for every
\* page of the document
PageChunks(doc) == [p \in 1..Len(doc.pages) |-> PageText(doc.pages[p])]

RECURSIVE ChunksOf(_)
ChunksOf(pdf_files) ==
    IF pdf_files = <<>> THEN <<>>
    ELSE PageChunks(Head(pdf_files)) \o ChunksOf(Tail(pdf_files))

\* Nothing shields fitz.open and load_page: the exception of a document
\* that cannot be read leaves the function.
OpenFails(pdf_files) == \E i \in 1..Len(pdf_files) : ~pdf_files[i].readable

NotExtracted == [raised |-> FALSE, chunks |-> <<>>, file_names |-> <<>>]

extract_chunks_from_pdf(dir) ==
    LET pdf_files == SelectSeq(dir, IsPdf)
        file_names == [i \in 1..Len(pdf_files) |-> pdf_files[i].stem]
    IN  IF OpenFails(pdf_files)
        THEN [raised |-> TRUE, chunks |-> <<>>, file_names |-> <<>>]
        ELSE [raised |-> FALSE, chunks |-> ChunksOf(pdf_files),
              file_names |-> file_names]

Extract ==
    /\ ~extract_done
    /\ extracted' = extract_chunks_from_pdf(directory)
    /\ extract_done' = TRUE
    /\ directory' = directory

InitExtract ==
    /\ directory = <<>>
    /\ extracted = NotExtracted
    /\ extract_done = FALSE

\* The directory is any of the directories.
InitExtractDirectories ==
    /\ directory \in Directories(MaxFiles)
    /\ extracted = NotExtracted
    /\ extract_done = FALSE


(***************************************************************************)
(* RAGSystem (Rag.py): loading the chunks and the index, and               *)
(* process_query as run() calls it.  The questions of one browser session  *)
(* are modelled, all of them asked within one minute.  Positions of the    *)
(* index are counted from 1; the label of a missing result is -1, which    *)
(* as a Python list index is the last element.                             *)
(***************************************************************************)
SessionClient == "c1"

\* st.text_area(..., max_chars=Config.MAX_QUERY_LENGTH)
Questions == {p \in Prompts : Len(p) <= MAX_QUERY_LENGTH}

\* The directories of the sessions: documents of any stem with pages of
\* one dense line, and documents that cannot be read.
QueryFiles ==
    {[stem |-> Stems[1], ext |-> "pdf", readable |-> FALSE, pages |-> <<>>]}
    \cup {[stem |-> Stems[i], ext |-> "pdf", readable |-> TRUE,
           pages |-> DocumentOf(Stems[i], [p \in 1..n |-> <<"dense">>])] :
             i \in 1..Len(Stems), n \in 0..MaxPages}

QueryDirectories(max) == UNION {[1..n -> QueryFiles] : n \in 0..max}

NotLoaded == [status |-> "new", chunks |-> <<>>, file_names |-> <<>>]
LoadFailed == [status |-> "failed", chunks |-> <<>>, file_names |-> <<>>]

\* run(), lines 285-289: self.chunks, self.index, self.file_names =
\* store_data().  The index holds one vector per chunk.  Without a chunk
\* model.encode returns an array without a second axis and
\* embeddings.shape[1] raises, or (if the library shapes the empty result
\* as a matrix) the index is built empty.
LoadChunksAndIndex ==
    /\ rag.status = "new"
    /\ LET e == extract_chunks_from_pdf(directory)
       IN  IF e.raised
           THEN rag' = LoadFailed
           ELSE IF e.chunks = <<>>
           THEN rag' \in {LoadFailed,
                          [status |-> "ready", chunks |-> <<>>,
                           file_names |-> e.file_names]}
           ELSE rag' = [status |-> "ready", chunks |-> e.chunks,
                        file_names |-> e.file_names]
    /\ UNCHANGED <<query, nqueries>>

MISSING == -1

\* Injective sequences of length n over the set S.
Arrangements(S, n) ==
    {a \in [1..n -> S] : \A i, j \in 1..n : i # j => a[i] # a[j]}

Min(a, b) == IF a < b THEN a ELSE b

\* index.search(q_embedding, k): the labels of the k best matches, best
\* first; labels beyond the size of the index are -1.  Which chunks match
\* best depends on the question and the embeddings: any ranking.
SearchResults(ntotal, k) ==
    {[i \in 1..k |-> IF i <= Len(best) THEN best[i] ELSE MISSING] :
        best \in Arrangements(1..ntotal, Min(k, ntotal))}

\* list[idx] for a label: -1 is the last element, and an index outside the
\* list raises IndexError.
InRange(list, idx) ==
    IF idx = MISSING THEN list # <<>> ELSE idx \in 1..Len(list)

Item(list, idx) == IF idx = MISSING THEN list[Len(list)] ELSE list[idx]

IsDigitRun(part) == part \in DigitRuns

\* re.findall(r"\d+", file)
FindAllDigits(file) == SelectSeq(file, IsDigitRun)

\* for file in top_files: if numbers: number_files.append(numbers[0])
RECURSIVE NumberFiles(_)
NumberFiles(top_files) ==
    IF top_files = <<>> THEN <<>>
    ELSE LET numbers == FindAllDigits(Head(top_files))
         IN  (IF numbers # <<>> THEN <<numbers[1]>> ELSE <<>>)
                \o NumberFiles(Tail(top_files))

Range(f) == {f[i] : i \in DOMAIN f}

\* list(set(number_files)): the elements in the iteration order of the
\* set, which for strings is any order (hash randomization).
SetOrders(number_files) ==
    Arrangements(Range(number_files), Cardinality(Range(number_files)))

\* ['0' + f for f in unique_list]
ProjectNumbers(unique_list) ==
    [i \in 1..Len(unique_list) |-> <<"0", unique_list[i]>>]

\* return None, None, None
NoneResult == [none |-> TRUE, top_chunks |-> <<>>, top_files |-> <<>>,
               project_numbers |-> <<>>]

NoQuery == [question |-> <<>>, called |-> FALSE, allowed |-> FALSE,
            embedded |-> FALSE, top_idx |-> <<>>, error |-> FALSE,
            result |-> NoneResult]

\* process_query from the search on (lines 145-171).
Resolve(question, top_idx, unique_list) ==
    IF \E i \in 1..Len(top_idx) :
          ~InRange(rag.chunks, top_idx[i]) \/ ~InRange(rag.file_names, top_idx[i])
    THEN \* IndexError, caught by except Exception: st.error(...)
         [question |-> question, called |-> TRUE, allowed |-> TRUE,
          embedded |-> TRUE, top_idx |-> top_idx, error |-> TRUE,
          result |-> NoneResult]
    ELSE [question |-> question, called |-> TRUE, allowed |-> TRUE,
          embedded |-> TRUE, top_idx |-> top_idx, error |-> FALSE,
          result |->
            [none |-> FALSE,
             top_chunks |-> [i \in 1..Len(top_idx) |-> Item(rag.chunks, top_idx[i])],
             top_files |-> [i \in 1..Len(top_idx) |-> Item(rag.file_names, top_idx[i])],
             project_numbers |-> ProjectNumbers(unique_list)]]

\* The file names the labels select, when all of them are in range.
TopFiles(top_idx) ==
    IF \A i \in 1..Len(top_idx) : InRange(rag.file_names, top_idx[i])
    THEN [i \in 1..Len(top_idx) |-> Item(rag.file_names, top_idx[i])]
    ELSE <<>>

\* run(), lines 312-339, and process_query: a blank question is answered
\* with a warning; any other goes to process_query, which checks the rate
\* limit and then embeds the question and searches the index.
SubmitQuestion ==
    /\ rag.status = "ready"
    /\ nqueries < MaxQueries
    /\ nqueries' = nqueries + 1
    /\ rag' = rag
    /\ \E question \in Questions :
         IF IsBlank(question)
         THEN /\ query' = [NoQuery EXCEPT !.question = question]
              /\ UNCHANGED rate_vars
         ELSE /\ check_rate_limit(SessionClient)
              /\ IF ~rl_result'.allowed
                 THEN query' = [NoQuery EXCEPT !.question = question,
                                               !.called = TRUE, !.error = TRUE]
                 ELSE \E top_idx \in SearchResults(Len(rag.chunks), TOP_K_RESULTS) :
                        \E unique_list \in SetOrders(NumberFiles(TopFiles(top_idx))) :
                           query' = Resolve(question, top_idx, unique_list)

InitQuery ==
    /\ rag = NotLoaded
    /\ query = NoQuery
    /\ nqueries = 0


(***************************************************************************)
(* LLMService.get_performance_stats (llm_service.py 252-280).  A number    *)
(* that the code rounds to two decimals is kept as the integer number of   *)
(* its hundredths: 80.0 is 8000.                                           *)
(***************************************************************************)
RoundDiv_Truncated(n, d) == n \div d

\* round(n / d): to the nearest integer, a tie to the even one.
RoundDiv(n, d) ==
    LET q == n \div d
        r == n % d
    IN  IF 2 * r < d THEN q
        ELSE IF 2 * r > d THEN q + 1
        ELSE IF q % 2 = 0 THEN q ELSE q + 1

\* round(x, 2) for x = 100 * n / d, in hundredths
Percent(n, d) == RoundDiv(10000 * n, d)

NoStats == [total_requests |-> 0, average_response_time |-> 0, error_rate |-> 0,
            success_rate |-> 0, service_type |-> None,
            has_mock_requests |-> FALSE, mock_requests |-> 0]

get_performance_stats(s) ==
    LET base_stats == [NoStats EXCEPT
                          !.total_requests = s.total_requests,
                          !.service_type = IF s.use_mock THEN "mock" ELSE "bedrock"]
    IN  IF s.total_requests = 0
        THEN base_stats
        ELSE LET updated ==
                   [base_stats EXCEPT
                      !.average_response_time =
                          RoundDiv(100 * s.total_response_time, s.total_requests),
                      !.error_rate = Percent(s.error_count, s.total_requests),
                      !.success_rate =
                          Percent(s.total_requests - s.error_count, s.total_requests)]
             IN  IF s.use_mock /\ s.mock_service
                 THEN [updated EXCEPT !.has_mock_requests = TRUE,
                                      !.mock_requests = s.mock_requests]
                 ELSE updated

GetPerformanceStats ==
    /\ stats' = get_performance_stats(Service)
    /\ nstats' = TRUE

InitStats ==
    /\ stats = NoStats
    /\ nstats = FALSE


(***************************************************************************)
(* LLMService.health_check (llm_service.py 282-318) and                    *)
(* MockLLMService.health_check (mock_llm_service.py 53-62).                *)
(***************************************************************************)
\* "Hello, please respond with 'Service is healthy'"
CanaryPrompt == <<"w", "sp", "healthy">>

\* "healthy" in response.lower()
ContainsHealthy(text) == \E i \in 1..Len(text) : text[i] = "healthy"

\* MockLLMService.health_check: healthy, whatever the state
MockHealthCheck == [healthy |-> TRUE, service_type |-> "mock", error |-> NoText]

\* is_healthy
ReportsHealthy(test_response) ==
    /\ test_response.success
    /\ test_response.response # NoText
    /\ ContainsHealthy(test_response.response)

\* The service after the check, the report, and for the record whether a
\* canary request was made and the call that made it.
health_check(s, env) ==
    IF s.use_mock /\ s.mock_service
    THEN [s |-> s, canary |-> FALSE,
          call |-> [s |-> s, result |-> Failure(NoText, 0), exc |-> NoException,
                    sent |-> NoText],
          health |-> [MockHealthCheck EXCEPT !.service_type = "mock"]]
    ELSE LET c == generate_response(s, CanaryPrompt, None, env)
         IN  [s |-> c.s, canary |-> TRUE, call |-> c,
              health |->
                 IF c.result.raised
                 THEN [healthy |-> FALSE, service_type |-> "unknown",
                       error |-> c.result.error]
                 ELSE [healthy |-> ReportsHealthy(c.result),
                       service_type |-> IF c.s.use_mock THEN "mock" ELSE "bedrock",
                       error |-> IF c.result.success THEN NoText
                                 ELSE c.result.error]]

\* The backend may answer the canary with the acknowledgment.
HealthEnvironments(s) ==
    Environments(s) \cup {Env("ok", <<"txt", "healthy">>, TRUE, TRUE, d) : d \in ResponseTimes}

HealthCheck ==
    /\ nhealth < MaxHealthChecks
    /\ \E env \in (IF use_mock /\ mock_service THEN {CalmEnv(1)}
                   ELSE HealthEnvironments(Service)) :
         \E h \in {health_check(Service, env)} :
            /\ use_mock' = h.s.use_mock
            /\ mock_service' = h.s.mock_service
            /\ client' = h.s.client
            /\ total_requests' = h.s.total_requests
            /\ total_response_time' = h.s.total_response_time
            /\ error_count' = h.s.error_count
            /\ mock_requests' = h.s.mock_requests
            /\ mock_response_time' = h.s.mock_response_time
            /\ backend_calls' = h.s.backend_calls
            /\ events' = h.s.events
            /\ last_call' =
                 IF h.canary
                 THEN [prompt |-> CanaryPrompt, context |-> None,
                       mock_before |-> use_mock,
                       attempts |-> h.s.backend_calls - backend_calls,
                       outcome |-> IF h.s.backend_calls = backend_calls
                                   THEN None ELSE env.outcome,
                       import_ok |-> env.import_ok,
                       exc |-> h.call.exc, sent |-> h.call.sent,
                       result |-> h.call.result]
                 ELSE last_call
            /\ ncalls' = IF h.canary THEN ncalls + 1 ELSE ncalls
            /\ access_denied_seen' =
                 (access_denied_seen \/ h.call.exc.code = "AccessDeniedException")
            /\ health' = [report |-> h.health, canary |-> h.canary,
                          test_response |-> h.call.result]
    /\ nhealth' = nhealth + 1
    /\ UNCHANGED <<now, rate_limit_store, rl_result, allowed_log, nchecks>>

InitHealth ==
    /\ health = [report |-> [healthy |-> FALSE, service_type |-> None,
                             error |-> NoText],
                 canary |-> FALSE, test_response |-> Failure(NoText, 0)]
    /\ nhealth = 0


(***************************************************************************)
(* RAGSystem.generate_answers (Rag.py 173-208).  answer_text is the        *)
(* sequence of the pieces the loop appends to it.                          *)
(***************************************************************************)
Piece(kind, file, text, time) ==
    [kind |-> kind, file |-> file, text |-> text, time |-> time]

\* The file is named only above a generated text.
SectionOf_HeaderOnSuccess(file_name, response) ==
    IF response.success
    THEN <<Piece("file", file_name, NoText, 0),
           Piece("response", None, response.response, 0),
           Piece("time", None, NoText, response.response_time),
           Piece("rule", None, NoText, 0)>>
    ELSE <<Piece("error", None, response.error, 0), Piece("rule", None, NoText, 0)>>

\* What one iteration of the loop appends for the result of its call.
SectionOf(file_name, response) ==
    IF response.raised
    THEN \* except Exception as e
         <<Piece("processing_error", file_name, response.error, 0)>>
    ELSE <<Piece("file", file_name, NoText, 0)>>
         \o (IF response.success
             THEN <<Piece("response", None, response.response, 0),
                    Piece("time", None, NoText, response.response_time)>>
             ELSE <<Piece("error", None, response.error, 0)>>)
         \o <<Piece("rule", None, NoText, 0)>>

RECURSIVE AnswersFrom(_, _, _, _, _, _, _)
\* The loop from its iteration i on: acc holds the service, the report so
\* far and, for the record, the calls made.
AnswersFrom(acc, question, top_chunks, top_files, envs, i, n) ==
    IF i > n
    THEN acc
    ELSE LET c == generate_response(acc.s, question, top_chunks[i], envs[i])
             next == [s |-> c.s,
                      answer_text |-> acc.answer_text
                                        \o SectionOf(top_files[i], c.result),
                      calls |-> Append(acc.calls, c)]
         IN  IF Len(next.answer_text) >= 0
             THEN AnswersFrom(next, question, top_chunks, top_files, envs, i + 1, n)
             ELSE acc

\* for i, (chunk, file_name) in enumerate(zip(top_chunks, top_files))
generate_answers(s, question, top_chunks, top_files, envs) ==
    AnswersFrom([s |-> s, answer_text |-> <<>>, calls |-> <<>>],
                question, top_chunks, top_files, envs, 1,
                Min(Len(top_chunks), Len(top_files)))

\* The questions of the batches: one that is answered and one that the
\* input validation rejects.
AnswerQuestions == {<<"w">>, <<"js">>}
AnswerFiles == {"A_1.pdf", "B_2.pdf"}
AnswerChunk(i) == IF i = 1 THEN "chunk_1" ELSE IF i = 2 THEN "chunk_2" ELSE "chunk_n"

\* What the environment does during the call for one chunk.
AnswerEnvironments(s) ==
    {e \in Environments(s) : e.dt = 1 /\ e.reply = <<"txt">>}

NoAnswers == [question |-> <<>>, top_chunks |-> <<>>, top_files |-> <<>>,
              answer_text |-> <<>>, calls |-> <<>>]

GenerateAnswers ==
    /\ nanswers = 0
    /\ nanswers' = 1
    /\ \E envs \in [1..Len(answers.top_chunks) -> AnswerEnvironments(Service)] :
         \E g \in {generate_answers(Service, answers.question, answers.top_chunks,
                                    answers.top_files, envs)} :
            /\ use_mock' = g.s.use_mock
            /\ mock_service' = g.s.mock_service
            /\ client' = g.s.client
            /\ total_requests' = g.s.total_requests
            /\ total_response_time' = g.s.total_response_time
            /\ error_count' = g.s.error_count
            /\ mock_requests' = g.s.mock_requests
            /\ mock_response_time' = g.s.mock_response_time
            /\ backend_calls' = g.s.backend_calls
            /\ events' = g.s.events
            /\ answers' = [answers EXCEPT !.answer_text = g.answer_text,
                                          !.calls = [i \in 1..Len(g.calls) |->
                                                        g.calls[i].result]]
            /\ ncalls' = ncalls + Len(g.calls)
            /\ access_denied_seen' =
                 (access_denied_seen
                    \/ \E i \in 1..Len(g.calls) :
                          g.calls[i].exc.code = "AccessDeniedException")
    /\ UNCHANGED <<now, rate_limit_store, rl_result, allowed_log, nchecks, last_call>>

InitAnswers ==
    /\ answers = NoAnswers
    /\ nanswers = 0

\* Any batch that process_query can return: up to TOP_K_RESULTS chunks, each
\* with the name of its file.
InitAnswersBatch ==
    /\ nanswers = 0
    /\ \E question \in AnswerQuestions, n \in 1..TOP_K_RESULTS :
         \E top_files \in [1..n -> AnswerFiles] :
            answers = [NoAnswers EXCEPT
                          !.question = question,
                          !.top_chunks = [i \in 1..n |-> AnswerChunk(i)],
                          !.top_files = top_files]


(***************************************************************************)
(* SecurityManager.validate_input called on its own (security.py 81-111),  *)
(* for every input of up to one character more than the maximum length.    *)
(***************************************************************************)
Inputs(max) == SeqsUpTo(Alphabet, max)

NoValidation == [user_input |-> <<>>, is_valid |-> FALSE, cleaned_input |-> <<>>]

ValidateInput ==
    /\ nvalidations = 0
    /\ nvalidations' = 1
    /\ \E v \in {validate_input(events, validation.user_input)} :
         /\ validation' = [validation EXCEPT !.is_valid = v.valid,
                                             !.cleaned_input = v.value]
         /\ events' = v.events
    /\ UNCHANGED <<now, rate_limit_store, rl_result, allowed_log, nchecks>>

InitValidation ==
    /\ validation = NoValidation
    /\ nvalidations = 0

InitValidationInputs ==
    /\ nvalidations = 0
    /\ \E user_input \in Inputs(MAX_QUERY_LENGTH + 1) :
         validation = [NoValidation EXCEPT !.user_input = user_input]


(***************************************************************************)
(* SecurityManager.get_session_info (security.py 168-178) and the page run *)
(* of RAGSystem.run (Rag.py 279-316): setup_ui reads the session           *)
(* information on every run, and a run with a submitted question goes on   *)
(* to process_query, whose first step is a rate-limit check.               *)
(***************************************************************************)
\* check_rate_limit as a function of the store, the log and the time.
rate_check(store, log, client_id, at) ==
    LET cleaned == CleanOldEntries(store[client_id], at - WINDOW)
        current_requests == Len(cleaned)
    IN  IF LimitReached(current_requests)
        THEN [store |-> [store EXCEPT ![client_id] = BlockedWindow(cleaned, at)],
              events |-> log_security_event(log, "RATE_LIMIT_EXCEEDED", "WARNING"),
              allowed |-> FALSE, remaining |-> 0]
        ELSE [store |-> [store EXCEPT ![client_id] = Append(cleaned, at)],
              events |-> log,
              allowed |-> TRUE, remaining |-> Remaining(current_requests)]

\* The status is computed from the window without a check.
get_session_info_ReadOnly(store, log, at) ==
    LET cleaned == CleanOldEntries(store[SessionClient], at - WINDOW)
    IN  [store |-> store, events |-> log, allowed |-> FALSE,
         info |-> [client_id |-> SessionClient,
                   rate_limit_remaining |-> RATE_LIMIT_PER_MINUTE - Len(cleaned),
                   requests_made |-> Len(store[SessionClient])]]

\* get_client_ip gives the identifier kept in the session state.
get_session_info(store, log, at) ==
    LET c == rate_check(store, log, SessionClient, at)
    IN  [store |-> c.store, events |-> c.events, allowed |-> c.allowed,
         info |-> [client_id |-> SessionClient,
                   rate_limit_remaining |-> c.remaining,
                   requests_made |-> Len(c.store[SessionClient])]]

NoSession == [submitted |-> FALSE, query_allowed |-> FALSE,
              info |-> [client_id |-> None, rate_limit_remaining |-> 0,
                        requests_made |-> 0]]

\* A page run without a submitted question: setup_ui only.
RenderPage ==
    /\ nchecks < MaxChecks
    /\ \E i \in {get_session_info(rate_limit_store, events, now)} :
         /\ rate_limit_store' = i.store
         /\ events' = i.events
         /\ allowed_log' = IF i.allowed
                           THEN [allowed_log EXCEPT ![SessionClient] = Append(@, now)]
                           ELSE allowed_log
         /\ rl_result' = [client |-> SessionClient, at |-> now,
                          before |-> rate_limit_store[SessionClient],
                          allowed |-> i.allowed,
                          remaining |-> i.info.rate_limit_remaining]
         /\ session' = [submitted |-> FALSE, query_allowed |-> FALSE, info |-> i.info]
    /\ nchecks' = nchecks + 1
    /\ nrenders' = nrenders + 1
    /\ now' = now

\* A page run with a submitted question: setup_ui, then process_query up
\* to its rate-limit check.
SubmitPage ==
    /\ nchecks + 1 < MaxChecks
    /\ \E i \in {get_session_info(rate_limit_store, events, now)} :
         \E q \in {rate_check(i.store, i.events, SessionClient, now)} :
            /\ rate_limit_store' = q.store
            /\ events' = q.events
            /\ allowed_log' =
                 [allowed_log EXCEPT ![SessionClient] =
                    @ \o (IF i.allowed THEN <<now>> ELSE <<>>)
                      \o (IF q.allowed THEN <<now>> ELSE <<>>)]
            /\ rl_result' = [client |-> SessionClient, at |-> now,
                             before |-> i.store[SessionClient],
                             allowed |-> q.allowed, remaining |-> q.remaining]
            /\ session' = [submitted |-> TRUE, query_allowed |-> q.allowed,
                           info |-> i.info]
    /\ nchecks' = nchecks + 2
    /\ nrenders' = nrenders + 1
    /\ now' = now

InitSessionInfo ==
    /\ session = NoSession
    /\ nrenders = 0

(***************************************************************************)
(* Specifications.                                                         *)
(*   SpecLLM       calls of LLMService.generate_response, one at a time    *)
(*   SpecRate      calls of check_rate_limit, one at a time                *)
(*   SpecRateConc  calls of check_rate_limit by concurrent threads         *)
(*   SpecLLMConc   calls of generate_response by concurrent threads        *)
(*   SpecTrim      the noise trimming of one page, for every page          *)
(*   SpecExtract   extract_chunks_from_pdf, for every directory            *)
(*   SpecQuery     loading the index and the questions of a session        *)
(*   SpecStats     get_performance_stats, for every value of the counters  *)
(*   SpecHealth    calls of LLMService.health_check, one at a time         *)
(*   SpecAnswers   generate_answers, for every batch of retrieved chunks   *)
(*   SpecValidate  validate_input, for every input                         *)
(*   SpecSession   page runs of one session: status reads and submissions  *)
(*   Spec          all of them together                                    *)
(***************************************************************************)
Init ==
    /\ InitRate /\ InitLLM /\ InitConc /\ InitCount /\ InitTrim /\ InitExtract
    /\ InitQuery /\ InitStats /\ InitHealth /\ InitAnswers /\ InitValidation /\ InitSessionInfo

NextLLM == GenerateResponse /\ UNCHANGED <<conc_vars, count_vars, trim_vars, extract_vars, query_vars, stats_vars, health_vars, answers_vars, validation_vars, session_vars>>

SpecLLM == Init /\ [][NextLLM]_vars

NextRate ==
    \/ CheckRateLimit /\ UNCHANGED <<llm_vars, conc_vars, count_vars, trim_vars, extract_vars,
                                  query_vars, stats_vars, health_vars, answers_vars, validation_vars, session_vars>>
    \/ AdvanceClock /\ UNCHANGED <<llm_vars, conc_vars, count_vars, trim_vars, extract_vars,
                                  query_vars, stats_vars, health_vars, answers_vars, validation_vars, session_vars>>

SpecRate == Init /\ [][NextRate]_vars

NextRateConc ==
    \/ \E t \in Threads : T_Enter(t) /\ UNCHANGED <<llm_vars, count_vars, trim_vars, extract_vars,
                                                 query_vars, stats_vars, health_vars, answers_vars, validation_vars, session_vars>>
    \/ \E t \in Threads : T_Test(t) /\ UNCHANGED <<llm_vars, count_vars, trim_vars, extract_vars,
                                                 query_vars, stats_vars, health_vars, answers_vars, validation_vars, session_vars>>
    \/ \E t \in Threads : T_Pop(t) /\ UNCHANGED <<llm_vars, count_vars, trim_vars, extract_vars,
                                                 query_vars, stats_vars, health_vars, answers_vars, validation_vars, session_vars>>
    \/ \E t \in Threads : T_Count(t) /\ UNCHANGED <<llm_vars, count_vars, trim_vars, extract_vars,
                                                 query_vars, stats_vars, health_vars, answers_vars, validation_vars, session_vars>>
    \/ \E t \in Threads : T_Blocked(t) /\ UNCHANGED <<llm_vars, count_vars, trim_vars, extract_vars,
                                                 query_vars, stats_vars, health_vars, answers_vars, validation_vars, session_vars>>
    \/ \E t \in Threads : T_Append(t) /\ UNCHANGED <<llm_vars, count_vars, trim_vars, extract_vars,
                                                 query_vars, stats_vars, health_vars, answers_vars, validation_vars, session_vars>>
    \/ T_AdvanceClock /\ UNCHANGED <<llm_vars, count_vars, trim_vars, extract_vars,
                                                 query_vars, stats_vars, health_vars, answers_vars, validation_vars, session_vars>>

SpecRateConc == Init /\ [][NextRateConc]_vars

\* What a generate_response thread leaves alone.
gate_vars == <<now, rate_limit_store, rl_result, allowed_log, nchecks,
               conc_vars, trim_vars, extract_vars, query_vars, stats_vars, health_vars, answers_vars, validation_vars, session_vars>>

NextLLMConc ==
    \/ \E t \in Threads : G_Enter(t) /\ UNCHANGED gate_vars
    \/ \E t \in Threads : G_LoadTotal(t) /\ UNCHANGED gate_vars
    \/ \E t \in Threads : G_StoreTotal(t) /\ UNCHANGED gate_vars
    \/ \E t \in Threads : G_Try(t) /\ UNCHANGED gate_vars
    \/ \E t \in Threads : G_Store(t) /\ UNCHANGED gate_vars

SpecLLMConc == Init /\ [][NextLLMConc]_vars

\* The service as its constructor leaves it when the client can be created.
InitLLMReady == InitLLM /\ client

NextTrim ==
    Trim /\ UNCHANGED <<rate_vars, llm_vars, conc_vars, count_vars, extract_vars,
                        query_vars, stats_vars, health_vars, answers_vars, validation_vars, session_vars>>

\* Any page to trim, and everything else as it starts.
InitPages ==
    /\ InitRate /\ InitLLMReady /\ InitConc /\ InitCount /\ InitTrimPages
    /\ InitExtract /\ InitQuery /\ InitStats /\ InitHealth /\ InitAnswers /\ InitValidation /\ InitSessionInfo

SpecTrim == InitPages /\ [][NextTrim]_vars

NextExtract ==
    Extract /\ UNCHANGED <<rate_vars, llm_vars, conc_vars, count_vars, trim_vars,
                           query_vars, stats_vars, health_vars, answers_vars, validation_vars, session_vars>>

\* Any directory to extract, and everything else as it starts.
InitDirectories ==
    /\ InitRate /\ InitLLMReady /\ InitConc /\ InitCount /\ InitTrim
    /\ InitExtractDirectories /\ InitQuery /\ InitStats /\ InitHealth /\ InitAnswers /\ InitValidation /\ InitSessionInfo

SpecExtract == InitDirectories /\ [][NextExtract]_vars

\* What the query path leaves alone.
idle_vars == <<llm_vars, conc_vars, count_vars, trim_vars, extract_vars, stats_vars, health_vars, answers_vars, validation_vars, session_vars>>

NextQuery ==
    \/ LoadChunksAndIndex /\ UNCHANGED <<rate_vars, idle_vars>>
    \/ SubmitQuestion /\ UNCHANGED idle_vars

\* A session over any of its directories, nothing loaded yet.
InitSession ==
    /\ InitRate /\ InitLLMReady /\ InitConc /\ InitCount /\ InitTrim
    /\ directory \in QueryDirectories(MaxFiles) /\ extracted = NotExtracted
    /\ extract_done = FALSE /\ InitQuery /\ InitStats /\ InitHealth /\ InitAnswers /\ InitValidation /\ InitSessionInfo

SpecQuery == InitSession /\ [][NextQuery]_vars

\* What reading the statistics leaves alone.
still_vars == <<rate_vars, llm_vars, conc_vars, count_vars, trim_vars,
                extract_vars, query_vars, health_vars, answers_vars, validation_vars, session_vars>>

NextStats == GetPerformanceStats /\ UNCHANGED still_vars

\* An instance with any counters a run of calls can leave, in either mode.
InitCounters ==
    /\ InitRate /\ InitConc /\ InitCount /\ InitTrim /\ InitExtract /\ InitQuery
    /\ InitStats /\ InitHealth /\ InitAnswers /\ InitValidation /\ InitSessionInfo
    /\ use_mock \in BOOLEAN /\ mock_service = use_mock
    /\ client \in BOOLEAN
    /\ total_requests \in 0..MaxRequests
    /\ error_count \in 0..total_requests
    /\ total_response_time \in 0..(2 * (total_requests - error_count))
    /\ mock_requests \in (IF use_mock THEN 0..1 ELSE {0})
    /\ mock_response_time = mock_requests
    /\ backend_calls = 0
    /\ last_call = [prompt |-> <<>>, context |-> None, mock_before |-> FALSE,
                    attempts |-> 0, outcome |-> None, import_ok |-> TRUE,
                    exc |-> NoException,
                    sent |-> NoText, result |-> Failure(NoText, 0)]
    /\ access_denied_seen = FALSE
    /\ ncalls = 0

SpecStats == InitCounters /\ [][NextStats]_vars

NextHealth ==
    HealthCheck /\ UNCHANGED <<conc_vars, count_vars, trim_vars, extract_vars,
                               query_vars, stats_vars, answers_vars, validation_vars, session_vars>>

NextAnswers ==
    GenerateAnswers /\ UNCHANGED <<conc_vars, count_vars, trim_vars, extract_vars,
                                   query_vars, stats_vars, health_vars,
                                   validation_vars, session_vars>>

\* Any batch to answer, by a service as its constructor leaves it.
InitBatch ==
    /\ InitRate /\ InitLLM /\ InitConc /\ InitCount /\ InitTrim /\ InitExtract
    /\ InitQuery /\ InitStats /\ InitHealth /\ InitAnswersBatch
    /\ InitValidation /\ InitSessionInfo

SpecAnswers == InitBatch /\ [][NextAnswers]_vars

NextValidate ==
    ValidateInput /\ UNCHANGED <<llm_vars, conc_vars, count_vars, trim_vars,
                                 extract_vars, query_vars, stats_vars, health_vars,
                                 answers_vars, session_vars>>

\* Any input to validate, and everything else as it starts.
InitInputs ==
    /\ InitRate /\ InitLLMReady /\ InitConc /\ InitCount /\ InitTrim /\ InitExtract
    /\ InitQuery /\ InitStats /\ InitHealth /\ InitAnswers /\ InitValidationInputs
    /\ InitSessionInfo

SpecValidate == InitInputs /\ [][NextValidate]_vars

\* What a page run leaves alone.
page_vars == <<llm_vars, conc_vars, count_vars, trim_vars, extract_vars,
               query_vars, stats_vars, health_vars, answers_vars, validation_vars>>

NextSession ==
    \/ RenderPage /\ UNCHANGED page_vars
    \/ SubmitPage /\ UNCHANGED page_vars
    \/ AdvanceClock /\ UNCHANGED <<page_vars, session_vars>>

SpecSession == Init /\ [][NextSession]_vars

SpecHealth == Init /\ [][NextHealth]_vars

Next ==
    \/ NextRate \/ NextLLM \/ NextRateConc \/ NextLLMConc \/ NextTrim
    \/ NextExtract \/ NextQuery \/ NextStats \/ NextHealth
    \/ NextAnswers \/ NextValidate \/ NextSession

Spec == Init /\ [][Next]_vars

(***************************************************************************)
(* Properties of LLMService.generate_response.                             *)
(***************************************************************************)
ZeroLog == [k \in EventKinds |-> 0]

\* The prompt is rejected by input validation, or its sanitized form is
\* rejected by the content policy.
RejectedByGate(prompt) ==
    LET v == validate_input(ZeroLog, prompt)
    IN  \/ ~v.valid
        \/ ~check_content_policy(v.events, v.value).ok

\* The result is marked as coming from the mock service.
Annotated(r) ==
    /\ r.success
    /\ r.service_type = "mock"
    /\ \E i \in 1..Len(r.response) : r.response[i] = MockNotice

\* C1: a generate_response call whose prompt is rejected by input validation
\* or by the content policy does not invoke the backend, in normal and in
\* degraded mode: the number of converse invocations is unchanged by it.
C1_RejectedPromptNeverReachesBackend ==
    [][(ncalls' = ncalls + 1 /\ RejectedByGate(last_call'.prompt))
          => backend_calls' = backend_calls]_vars

\* A rejected prompt on an instance whose backend has been invoked before.
C1_Witness ==
    /\ ncalls > 0
    /\ RejectedByGate(last_call.prompt)
    /\ ~last_call.mock_before
    /\ ~last_call.result.success
    /\ backend_calls > 0

\* C2: every generate_response call with a prompt that input validation or
\* the content policy rejects returns success = false, whatever calls came
\* before on that instance, also after the switch to the mock responder.
C2_RejectedPromptAlwaysFails ==
    (ncalls > 0 /\ RejectedByGate(last_call.prompt))
        => (~last_call.result.raised /\ ~last_call.result.success)

OtherClientErrorCodes == ClientErrorCodes \ {"AccessDeniedException"}

\* C4: an instance switches to degraded mode only when the backend reports
\* an authorization failure; a throttling, transient, malformed-request or
\* unknown backend failure leaves use_mock false and gives a failed result.
C4_OnlyAccessDeniedSwitches ==
    [][/\ (~use_mock /\ use_mock')
            => last_call'.exc.code = "AccessDeniedException"
       /\ (ncalls' = ncalls + 1
             /\ last_call'.outcome \in OtherClientErrorCodes \cup {"BotoCoreError"})
            => (~use_mock' /\ ~last_call'.result.success)]_vars

\* C4 as amended: an instance switches to degraded mode during a call only
\* when the call meets an AccessDenied ClientError or an exception that is
\* no ClientError; a ClientError of any other code (throttling, transient,
\* malformed request, unknown) and a malformed response leave use_mock false
\* and give a failed result.
C4_SwitchOnlyOnAccessDeniedOrNonClientError ==
    [][/\ (~use_mock /\ use_mock')
            => \/ last_call'.exc.code = "AccessDeniedException"
               \/ last_call'.exc.type \notin {None, "ClientError"}
       /\ (ncalls' = ncalls + 1
             /\ last_call'.outcome \in OtherClientErrorCodes \cup {"malformed"})
            => /\ ~use_mock'
               /\ ~last_call'.result.raised
               /\ ~last_call'.result.success]_vars

\* A throttled call: still in normal mode, a failed result.
C4_Witness ==
    /\ ncalls > 0
    /\ last_call.outcome = "ThrottlingException"
    /\ ~use_mock
    /\ ~last_call.result.success
    /\ last_call.result.error = <<"[Bedrock API Error]", "ThrottlingException">>

\* The backend failures that are retried: throttling and transient ones.
RetryableCodes == {"ThrottlingException", "ServiceUnavailableException"}

\* C5: within one call a throttling or transient failure of an attempt is
\* followed by another attempt until one succeeds or 3 attempts were made;
\* a failed result is returned only then, and no call makes more than 3.
C5_RetriesUpToThreeAttempts ==
    ncalls > 0 =>
        /\ last_call.attempts <= 3
        /\ (last_call.outcome \in RetryableCodes /\ ~last_call.result.success)
              => last_call.attempts = 3

\* C6: generate_response returns a result with a success field and raises
\* nothing to its caller, for every prompt, backend outcome and state, also
\* when the mock service cannot be loaded.
C6_AlwaysReturnsResult ==
    ncalls > 0 =>
        /\ ~last_call.result.raised
        /\ last_call.result.success \in BOOLEAN
        /\ (~last_call.result.success => last_call.result.error # NoText)

\* A non-ClientError exception with no mock service to fall back to.
C6_Witness ==
    /\ ncalls > 0
    /\ last_call.exc.type = "BotoCoreError"
    /\ ~mock_service
    /\ ~last_call.result.raised
    /\ ~last_call.result.success

(***************************************************************************)
(* Properties of SecurityManager.check_rate_limit.                         *)
(***************************************************************************)
\* Number of allowed checks of client c at a time within lo..hi.
AllowedWithin(c, lo, hi) ==
    Cardinality({i \in 1..Len(allowed_log[c]) :
                   allowed_log[c][i] >= lo /\ allowed_log[c][i] <= hi})

\* The timestamps of a window that have not expired at time t.
Unexpired(q, t) == SelectSeq(q, LAMBDA ts : ts >= t - WINDOW)

\* C7: once N checks of a client were allowed within 60 seconds, the next
\* check of that client inside the window returns (False, 0); at most N
\* allowed checks of one client fall within any interval of 60 seconds.
C7_AtMostNPerWindow ==
    /\ [](\A c \in Clients : \A t \in 0..now :
             AllowedWithin(c, t, t + WINDOW) <= RATE_LIMIT_PER_MINUTE)
    /\ [][\A c \in Clients :
            (nchecks' = nchecks + 1 /\ rl_result'.client = c
               /\ AllowedWithin(c, now - WINDOW, now) >= RATE_LIMIT_PER_MINUTE)
              => (~rl_result'.allowed /\ rl_result'.remaining = 0)]_vars

\* A check blocked while N allowed ones lie within the last 60 seconds,
\* the oldest of them exactly 60 seconds ago.
C7_Witness ==
    /\ nchecks > 0
    /\ ~rl_result.allowed
    /\ Len(rl_result.before) = RATE_LIMIT_PER_MINUTE
    /\ rl_result.at - rl_result.before[1] = WINDOW

\* C8: if a client's window is full, a check made once now - timestamp >= 60
\* for every recorded timestamp is allowed.
C8_AllowedOnceSixtySecondsElapsed ==
    (/\ nchecks > 0
     /\ Len(rl_result.before) >= RATE_LIMIT_PER_MINUTE
     /\ \A i \in 1..Len(rl_result.before) :
           rl_result.at - rl_result.before[i] >= WINDOW)
        => rl_result.allowed

\* C8 as amended: if a client's window is full, a check made once
\* now - timestamp > 60 for every recorded timestamp is allowed: the expired
\* timestamps are evicted and the call is recorded.
C8_AllowedOnceMoreThanSixtySecondsElapsed ==
    (/\ nchecks > 0
     /\ Len(rl_result.before) >= RATE_LIMIT_PER_MINUTE
     /\ \A i \in 1..Len(rl_result.before) :
           rl_result.at - rl_result.before[i] > WINDOW)
        => /\ rl_result.allowed
           /\ rate_limit_store[rl_result.client] = <<rl_result.at>>

\* A check of a full window whose timestamps are all older than 60 seconds.
C8_Witness ==
    /\ nchecks > 0
    /\ Len(rl_result.before) = RATE_LIMIT_PER_MINUTE
    /\ \A i \in 1..Len(rl_result.before) :
          rl_result.at - rl_result.before[i] > WINDOW
    /\ rl_result.allowed

\* C9: a blocked check records one WARNING security event and appends no
\* timestamp: the window after the call holds exactly the unexpired
\* timestamps it held before.
C9_BlockedCheckConsumesNoSlot ==
    [][\A c \in Clients :
         (nchecks' = nchecks + 1 /\ rl_result'.client = c /\ ~rl_result'.allowed)
           => /\ events' = [events EXCEPT
                              ![<<"RATE_LIMIT_EXCEEDED", "WARNING">>] = @ + 1]
              /\ SeverityCount(events', "WARNING")
                    = SeverityCount(events, "WARNING") + 1
              /\ rate_limit_store'[c] = Unexpired(rate_limit_store[c], now)
              /\ \A d \in Clients \ {c} :
                    rate_limit_store'[d] = rate_limit_store[d]]_vars

\* A second blocked check in a row: two events, the window as it was.
C9_Witness ==
    /\ nchecks > 0
    /\ ~rl_result.allowed
    /\ events[<<"RATE_LIMIT_EXCEEDED", "WARNING">>] = 2
    /\ Len(rl_result.before) = RATE_LIMIT_PER_MINUTE
    /\ rate_limit_store[rl_result.client] = rl_result.before

\* C10: an allowed check returns remaining = N minus the number of
\* timestamps in the window after the call (N - 1 for the first request), a
\* blocked check returns 0, and remaining is always within 0..N-1.
C10_RemainingCountsFreeSlots ==
    nchecks > 0 =>
        /\ rl_result.remaining \in 0..(RATE_LIMIT_PER_MINUTE - 1)
        /\ rl_result.allowed =>
              rl_result.remaining =
                 RATE_LIMIT_PER_MINUTE - Len(rate_limit_store[rl_result.client])
        /\ (rl_result.allowed /\ rl_result.before = <<>>)
              => rl_result.remaining = RATE_LIMIT_PER_MINUTE - 1
        /\ ~rl_result.allowed => rl_result.remaining = 0

\* The first request of a client.
C10_Witness ==
    /\ nchecks > 0
    /\ rl_result.allowed
    /\ rl_result.before = <<>>
    /\ rl_result.remaining = RATE_LIMIT_PER_MINUTE - 1

(***************************************************************************)
(* Properties of check_rate_limit under concurrent calls.                  *)
(***************************************************************************)
\* C11: when check_rate_limit calls for one client interleave, the client's
\* window never holds more than N unexpired timestamps, and no more than N
\* of the calls are allowed within 60 seconds.
C11_ConcurrentChecksRespectLimit ==
    \A c \in Clients :
        /\ Len(Unexpired(rate_limit_store[c], now)) <= RATE_LIMIT_PER_MINUTE
        /\ \A lo \in 0..MaxTime :
              AllowedWithin(c, lo, lo + WINDOW) <= RATE_LIMIT_PER_MINUTE

(***************************************************************************)
(* Properties of generate_response under concurrent calls.                 *)
(***************************************************************************)
\* C12: when generate_response calls run concurrently on the shared
\* instance no counter update is lost: once all calls have finished,
\* total_requests has grown by the number of non-degraded calls and
\* error_count by the number of calls that took an error-counting path.
C12_NoCounterUpdateLost ==
    (\A t \in Threads : gr_pc[t] = "idle")
        => /\ total_requests = gr_counted
           /\ error_count = gr_errored

(***************************************************************************)
(* Properties of the noise trimming of a page.                             *)
(***************************************************************************)
\* Some n consecutive lines of out are all sparse.
HasSparseRun(out, n) ==
    \E i \in 1..(Len(out) - n + 1) : \A j \in i..(i + n - 1) : IsSparse(out[j])

\* C14: the noise-trimmed output of a page contains no run of 20 or more
\* consecutive sparse lines, also when the run ends the page or is followed
\* only by lines shorter than 3 characters.
C14_NoLongSparseRunInOutput ==
    trim_done => ~HasSparseRun(trim.tem_text, SPARSE_RUN)

\* The lines of 3 or more characters among the first n lines of the page.
LongLinesBefore(n) ==
    SelectSeq(SubSeq(lines, 1, n - 1), LAMBDA l : ~IsShort(l))

\* C15: while a page is trimmed the 20-line drop fires at most once per run
\* of sparse lines (two drops have a dense line between them) and removes
\* exactly the 20 sparse lines of the current run; every dense line of the
\* page is in the output, in the original order, and the output is a
\* subsequence of the page's lines.
C15_DropOncePerRunKeepsDenseLines ==
    trim_done =>
        LET out == trim.tem_text
            fired == trim.fired
        IN  /\ \A a, b \in 1..Len(fired) :
                  a < b => \E k \in fired[a]..(fired[b] - 1) : IsDense(lines[k])
            /\ \A a \in 1..Len(fired) :
                  LET before == LongLinesBefore(fired[a])
                      r == trim.removed[a]
                  IN  /\ Len(r) = SPARSE_RUN
                      /\ Len(before) >= SPARSE_RUN
                      /\ \A j \in 1..SPARSE_RUN :
                            /\ IsSparse(r[j])
                            /\ r[j] = before[Len(before) - SPARSE_RUN + j]
            /\ SelectSeq(out, IsDense) = SelectSeq(lines, IsDense)
            /\ \A j \in 1..Len(out) :
                  /\ out[j] = lines[out[j].idx]
                  /\ j > 1 => out[j - 1].idx < out[j].idx

\* A page with dense lines on which the drop fired for two runs.
C15_Witness ==
    /\ trim_done
    /\ Len(trim.fired) = 2
    /\ \E j \in 1..Len(trim.tem_text) : IsDense(trim.tem_text[j])

(***************************************************************************)
(* Properties of extract_chunks_from_pdf.                                  *)
(***************************************************************************)
RECURSIVE Concat(_)
Concat(texts) == IF texts = <<>> THEN <<>> ELSE Head(texts) \o Concat(Tail(texts))

\* The text of a document: its trimmed pages, one after the other.
DocumentText(doc) == Concat([p \in 1..Len(doc.pages) |-> PageText(doc.pages[p])])

\* C13: for every corpus extract_chunks_from_pdf returns chunks and
\* file_names of equal length, chunks[i] being the text of the document
\* named file_names[i]: one chunk per document, all its pages concatenated.
C13_OneChunkPerDocument ==
    (extract_done /\ ~extracted.raised) =>
        LET pdf_files == SelectSeq(directory, IsPdf)
        IN  /\ Len(extracted.chunks) = Len(extracted.file_names)
            /\ Len(extracted.file_names) = Len(pdf_files)
            /\ \A i \in 1..Len(pdf_files) :
                  /\ extracted.file_names[i] = pdf_files[i].stem
                  /\ i <= Len(extracted.chunks)
                       => extracted.chunks[i] = DocumentText(pdf_files[i])

\* C16: when a document of the corpus cannot be opened or read, extraction
\* skips it and still returns the names and the text of every other
\* document; it does not abort.
C16_UnreadableDocumentIsSkipped ==
    (extract_done /\ \E i \in 1..Len(directory) :
                        IsPdf(directory[i]) /\ ~directory[i].readable) =>
        LET others == SelectSeq(directory, LAMBDA f : IsPdf(f) /\ f.readable)
        IN  /\ ~extracted.raised
            /\ extracted.file_names = [i \in 1..Len(others) |-> others[i].stem]
            /\ Concat(extracted.chunks) =
                 Concat([i \in 1..Len(others) |-> DocumentText(others[i])])

(***************************************************************************)
(* Properties of RAGSystem.process_query.                                  *)
(***************************************************************************)
\* The labels of a search result that are positions of the index.
Found(top_idx) == SelectSeq(top_idx, LAMBDA idx : idx # MISSING)

\* C17: when the configured top-k exceeds the number c >= 1 of indexed
\* chunks, process_query returns exactly c chunks and c file names, each
\* indexed chunk at most once, best match first, and raises no error; the
\* positions the search reports as missing (-1) select no chunk.
C17_TopKClampedToCorpus ==
    (/\ nqueries > 0
     /\ query.embedded
     /\ Len(rag.chunks) >= 1
     /\ TOP_K_RESULTS > Len(rag.chunks))
        => LET c == Len(rag.chunks)
               found == Found(query.top_idx)
           IN  /\ ~query.error
               /\ ~query.result.none
               /\ Len(query.result.top_chunks) = c
               /\ Len(query.result.top_files) = c
               /\ query.result.top_chunks = [i \in 1..c |-> rag.chunks[found[i]]]

\* C18: when the index is empty, process_query returns an empty chunk list,
\* an empty file list and an empty collection of project ids, and reports
\* no error.
C18_EmptyIndexGivesEmptyResult ==
    (/\ nqueries > 0
     /\ query.embedded
     /\ Len(rag.chunks) = 0)
        => /\ ~query.error
           /\ ~query.result.none
           /\ query.result.top_chunks = <<>>
           /\ query.result.top_files = <<>>
           /\ query.result.project_numbers = <<>>

\* The elements of a sequence, each at its first occurrence only.
RECURSIVE FirstSeen(_, _)
FirstSeen(seq, seen) ==
    IF seq = <<>> THEN <<>>
    ELSE IF Head(seq) \in seen THEN FirstSeen(Tail(seq), seen)
    ELSE <<Head(seq)>> \o FirstSeen(Tail(seq), seen \cup {Head(seq)})

\* The first run of digits of every file name that has one.
FirstDigitRuns(files) ==
    LET withDigits == SelectSeq(files, LAMBDA f : \E i \in 1..Len(f) : f[i] \in DigitRuns)
    IN  [i \in 1..Len(withDigits) |->
            withDigits[i][CHOOSE j \in 1..Len(withDigits[i]) :
                             /\ withDigits[i][j] \in DigitRuns
                             /\ \A h \in 1..(j - 1) : withDigits[i][h] \notin DigitRuns]]

\* C19: the project ids returned by process_query are the first digit runs
\* of the returned file names, deduplicated in first-seen order (the order
\* of the best-first file list), each prefixed with one "0"; file names
\* without digits contribute no id.
C19_ProjectIdsInFirstSeenOrder ==
    (nqueries > 0 /\ query.called /\ ~query.result.none)
        => LET ids == FirstSeen(FirstDigitRuns(query.result.top_files), {})
           IN  query.result.project_numbers = [i \in 1..Len(ids) |-> <<"0", ids[i]>>]

\* C20: on the query path a question is embedded and searched against the
\* index only after it has passed the rate limit and input validation: a
\* question that validation rejects never reaches the index.
C20_ValidatedBeforeRetrieval ==
    (nqueries > 0 /\ query.embedded)
        => /\ query.allowed
           /\ validate_input(events, query.question).valid

(***************************************************************************)
(* Properties of the results of generate_response.                         *)
(***************************************************************************)
\* C21: every result with success = true that generate_response returns,
\* in normal and in degraded mode alike, carries a response text that went
\* through redact_sensitive_data: redacting it again changes nothing.
C21_SuccessResponseIsRedacted ==
    (ncalls > 0 /\ last_call.result.success)
        => redact_sensitive_data(last_call.result.response)
              = last_call.result.response

(***************************************************************************)
(* Properties of LLMService.get_performance_stats.                         *)
(***************************************************************************)
\* The original reading of C22: with T > 0 requests and E errors the
\* reported rates are exactly 100*(T-E)/T and 100*E/T.
C22_RatesAreExact ==
    (nstats /\ total_requests > 0)
        => /\ stats.success_rate * total_requests
                = 10000 * (total_requests - error_count)
           /\ stats.error_rate * total_requests = 10000 * error_count

\* x, in hundredths, is the nearest hundredth to 100 * n / d
NearestHundredth(x, n, d) ==
    /\ 2 * (x * d - 10000 * n) <= d
    /\ 2 * (10000 * n - x * d) <= d

\* C22: get_performance_stats never divides by zero: with no request
\* counted it reports total_requests, average_response_time, error_rate and
\* success_rate all 0; with T > 0 requests and E errors it reports
\* 100*(T-E)/T and 100*E/T, each rounded to two decimals (80 and 20 for
\* T = 10, E = 2), and the two reported rates sum to 100.
C22_StatsRoundedRates ==
    nstats =>
        /\ stats.total_requests = total_requests
        /\ total_requests = 0
             => /\ stats.average_response_time = 0
                /\ stats.error_rate = 0
                /\ stats.success_rate = 0
        /\ total_requests > 0
             => /\ NearestHundredth(stats.success_rate,
                                    total_requests - error_count, total_requests)
                /\ NearestHundredth(stats.error_rate, error_count, total_requests)
                /\ stats.success_rate + stats.error_rate = 10000
        /\ (total_requests = 10 /\ error_count = 2)
             => (stats.success_rate = 8000 /\ stats.error_rate = 2000)

\* Statistics read with ten requests and two errors counted: 80 and 20.
C22_Witness ==
    /\ nstats /\ total_requests = 10 /\ error_count = 2
    /\ stats.success_rate = 8000 /\ stats.error_rate = 2000

(***************************************************************************)
(* Properties of the error counter of LLMService.                          *)
(***************************************************************************)
\* The call just made ended in a failed result after the backend was called.
FailedAfterBackend(call) == ~call.result.success /\ call.attempts > 0

\* C23: every generate_response call that ends in a terminal failure after
\* the backend was called increments error_count by exactly one, and no
\* other call changes error_count.
C23_ErrorCountedPerTerminalFailure ==
    [][ncalls' = ncalls + 1
         => error_count' = error_count
                             + (IF FailedAfterBackend(last_call') THEN 1 ELSE 0)]_vars


(***************************************************************************)
(* Properties of LLMService.health_check.                                  *)
(***************************************************************************)
\* C24: health_check reports healthy = true only after one canary
\* generation request that succeeded and whose response contains the
\* acknowledgment phrase; in no state of the instance does it report healthy
\* without such a canary exchange.
C24_HealthyOnlyAfterCanary ==
    (nhealth > 0 /\ health.report.healthy)
        => /\ health.canary
           /\ health.test_response.success
           /\ ContainsHealthy(health.test_response.response)


(***************************************************************************)
(* Properties of RAGSystem.generate_answers.                               *)
(***************************************************************************)
\* The positions of the report where a section begins: a file header, or
\* the line that reports an exception for a file.
SectionStarts(text) ==
    {i \in 1..Len(text) : text[i].kind \in {"file", "processing_error"}}

\* The k-th section of the report.
Section(text, k) ==
    LET starts == SectionStarts(text)
        a == CHOOSE i \in starts : Cardinality({j \in starts : j <= i}) = k
        later == {j \in starts : j > a}
        b == IF later = {} THEN Len(text)
             ELSE (CHOOSE j \in later : \A l \in later : j <= l) - 1
    IN  SubSeq(text, a, b)

HasPiece(section, kind) == \E i \in 1..Len(section) : section[i].kind = kind

\* C25: for a batch of retrieved chunks generate_answers produces exactly
\* one report section per chunk, in the order of the batch, each naming its
\* source file and carrying either the generated text with its latency or
\* the error; every chunk is processed, whatever happened to the ones
\* before it.
C25_OneSectionPerChunk ==
    nanswers > 0 =>
        LET text == answers.answer_text
            n == Len(answers.top_chunks)
        IN  /\ Len(answers.calls) = n
            /\ Cardinality(SectionStarts(text)) = n
            /\ SectionStarts(text) # {} => 1 \in SectionStarts(text)
            /\ \A k \in 1..n :
                 LET section == Section(text, k)
                     response == answers.calls[k]
                 IN  /\ section[1].file = answers.top_files[k]
                     /\ IF response.success
                        THEN /\ \E i \in 1..Len(section) :
                                   /\ section[i].kind = "response"
                                   /\ section[i].text = response.response
                             /\ \E i \in 1..Len(section) :
                                   /\ section[i].kind = "time"
                                   /\ section[i].time = response.response_time
                             /\ ~HasPiece(section, "error")
                        ELSE /\ \E i \in 1..Len(section) :
                                   /\ section[i].kind \in {"error", "processing_error"}
                                   /\ section[i].text = response.error
                             /\ ~HasPiece(section, "response")

\* A batch of two chunks whose first generation failed and whose second
\* succeeded.
C25_Witness ==
    /\ nanswers > 0
    /\ Len(answers.calls) = 2
    /\ ~answers.calls[1].success
    /\ answers.calls[2].success
    /\ answers.top_files[1] # answers.top_files[2]


(***************************************************************************)
(* Properties of the input checks of generate_response.                    *)
(***************************************************************************)
\* C26: for an empty or whitespace-only prompt generate_response returns
\* success = false with the message of validate_input for that input,
\* "Empty input not allowed", in its error field, and does not call the
\* backend.
C26_BlankPromptGetsValidationMessage ==
    (ncalls > 0 /\ IsBlank(last_call.prompt))
        => /\ ~last_call.result.success
           /\ last_call.result.error = validate_input(ZeroLog, last_call.prompt).value
           /\ last_call.result.error = EmptyInputMsg
           /\ last_call.attempts = 0


(***************************************************************************)
(* Properties of SecurityManager.validate_input.                           *)
(***************************************************************************)
HasTag(s) == \E i \in 1..Len(s) : s[i] = "tag"

\* Blanks at either end, or two blanks in a row.
HasExtraWhitespace(s) ==
    \/ s # <<>> /\ (s[1] = "sp" \/ s[Len(s)] = "sp")
    \/ \E i \in 1..(Len(s) - 1) : s[i] = "sp" /\ s[i + 1] = "sp"

\* C27: validate_input decides in a fixed order on the raw input: a blank
\* input gives (False, "Empty input not allowed"); otherwise a length above
\* MAX_QUERY_LENGTH gives (False, the too-long message), length MAX being
\* accepted and MAX + 1 rejected; otherwise a denylist match gives (False,
\* the malicious-content message); otherwise (True, sanitized input), which
\* has no tag and no extra whitespace and equals the input when the input
\* has neither.
C27_ValidationOrder ==
    nvalidations > 0 =>
        LET u == validation.user_input
            result == <<validation.is_valid, validation.cleaned_input>>
        IN  IF IsBlank(u) THEN result = <<FALSE, EmptyInputMsg>>
            ELSE IF Len(u) >= MAX_QUERY_LENGTH + 1 THEN result = <<FALSE, TooLongMsg>>
            ELSE IF MatchesDenylist(u) THEN result = <<FALSE, MaliciousMsg>>
            ELSE /\ validation.is_valid
                 /\ ~HasTag(validation.cleaned_input)
                 /\ ~HasExtraWhitespace(validation.cleaned_input)
                 /\ (~HasTag(u) /\ ~HasExtraWhitespace(u))
                      => validation.cleaned_input = u

\* An input of MAX_QUERY_LENGTH + 1 characters that also matches the
\* denylist, rejected as too long.
C27_Witness ==
    /\ nvalidations > 0
    /\ Len(validation.user_input) = MAX_QUERY_LENGTH + 1
    /\ MatchesDenylist(validation.user_input)
    /\ ~validation.is_valid
    /\ validation.cleaned_input = TooLongMsg


\* The input passes the emptiness and length checks and matches a pattern
\* of the denylist.
DenylistRejected(u) ==
    ~IsBlank(u) /\ Len(u) <= MAX_QUERY_LENGTH /\ MatchesDenylist(u)

\* The duration of the call that gave this result.
DurationOf(result) == IF result.response_time = 0 THEN 1 ELSE result.response_time

\* C28: the result of a denylist rejection does not depend on which pattern
\* matched: for any two inputs that each pass the emptiness and length
\* checks and match some denylist pattern, validate_input returns identical
\* results and generate_response, called in the same state, returns
\* identical results.
C28_RejectionIndependentOfPattern ==
    [][(ncalls' = ncalls + 1 /\ DenylistRejected(last_call'.prompt))
         => \A other \in {p \in Prompts : DenylistRejected(p)} :
               LET u == last_call'.prompt
                   env == CalmEnv(DurationOf(last_call'.result))
               IN  /\ validate_input(ZeroLog, other).valid
                         = validate_input(ZeroLog, u).valid
                   /\ validate_input(ZeroLog, other).value
                         = validate_input(ZeroLog, u).value
                   /\ generate_response(Service, other, last_call'.context, env).result
                         = last_call'.result]_vars


(***************************************************************************)
(* Properties of SecurityManager.get_session_info.                         *)
(***************************************************************************)
\* t, n times.
Times(t, n) == [i \in 1..n |-> t]

\* C29: each get_session_info call performs a full rate-limit check for the
\* session's client and, when allowed, appends a timestamp to the client's
\* window: a page run takes one slot of the budget of process_query for its
\* status read, and a run that submits a question takes two, as far as free
\* slots remain; the remaining count it reports is the one of that check.
C29_StatusReadConsumesSlot ==
    [][nrenders' = nrenders + 1
         => LET cleaned == CleanOldEntries(rate_limit_store[SessionClient],
                                           now - WINDOW)
                free == RATE_LIMIT_PER_MINUTE - Len(cleaned)
                wanted == IF session'.submitted THEN 2 ELSE 1
            IN  /\ rate_limit_store'[SessionClient]
                     = cleaned \o Times(now, Min(wanted, free))
                /\ session'.info.requests_made = Min(Len(cleaned) + 1,
                                                     RATE_LIMIT_PER_MINUTE)
                /\ session'.info.rate_limit_remaining
                     = (IF free > 0 THEN free - 1 ELSE 0)
                /\ session'.submitted => session'.query_allowed = (free >= 2)]_vars

\* A page run that submitted a question and was allowed: its status read
\* and its query hold the two newest entries of the window.
C29_Witness ==
    /\ nrenders > 0
    /\ session.submitted /\ session.query_allowed
    /\ Len(rate_limit_store[SessionClient]) >= 2
    /\ session.info.requests_made = Len(rate_limit_store[SessionClient]) - 1


(***************************************************************************)
(* Properties of the counters in degraded mode.                            *)
(***************************************************************************)
\* The statistics of the instance itself: what get_performance_stats
\* reports apart from the counter of the mock service.
OwnStats(st) ==
    <<st.total_requests, st.average_response_time, st.error_rate, st.success_rate,
      st.service_type>>

\* C30: while an instance is in degraded mode a generate_response call
\* leaves total_requests, total_response_time and error_count of the
\* instance unchanged and adds one to the counter of the mock service, so
\* the rates reported by get_performance_stats stay as they were.
C30_DegradedCallsFreezeCounters ==
    [][(use_mock /\ mock_service /\ ncalls' = ncalls + 1)
         => /\ total_requests' = total_requests
            /\ total_response_time' = total_response_time
            /\ error_count' = error_count
            /\ mock_requests' = mock_requests + 1
            /\ OwnStats(get_performance_stats(Service)')
                 = OwnStats(get_performance_stats(Service))]_vars

\* A call answered in degraded mode by an instance that counted a request
\* before it switched.
C30_Witness ==
    /\ ncalls > 0
    /\ last_call.mock_before
    /\ total_requests > 0
    /\ mock_requests > 0
    /\ get_performance_stats(Service).has_mock_requests

====
